---- MODULE Spec2Model ----
(***************************************************************************)
(* Execution core of the ahandd daemon: job registry, consent pipeline     *)
(* (session check, policy check, approval manager), job executor, and the  *)
(* controller link with its outbox (seq/ack stamping, replay on reconnect).*)
(*                                                                         *)
(* The specifications share the variables:                                 *)
(*   Spec      the consent pipeline, registry and executor, driven by      *)
(*             messages on the controller channel and the operator channel *)
(*   SpecConn  the controller connection: outbox, send worker, read loop,  *)
(*             disconnect / reconnect / replay                             *)
(*   SpecTrust, SpecPolicy, SpecOutbox, SpecExec                           *)
(*             one component alone: session manager, policy checker,       *)
(*             outbox, run_job with its reader tasks                       *)
(***************************************************************************)
EXTENDS Integers, Sequences, FiniteSets, TLC

\* ------------------------------------------------------------------ bounds
\* Approval waiters / executor tasks alive at the same time.
MaxTasks == 2
\* Messages (JobRequest, ApprovalResponse, CancelJob, SetSessionMode) the two
\* read loops process in total.
MaxMessages == 4
\* stdout/stderr chunks one job emits.
MaxChunks == 1
\* system.run invocations of the gateway dialect.
MaxSystemRuns == 1
\* Envelopes the emitters of the connection model hand to the send worker.
MaxEnvelopes == 3
\* Connections the reconnect loop opens.
MaxConnects == 3
\* Envelopes the controller sends on the link, and the largest seq / ack
\* value they carry.
MaxPeerMsgs == 2
MaxPeerSeq == 4
\* Tasks holding a clone of the per-connection sender in the connection model.
MaxEmitters == 2
\* Capacity of the outbox buffer (10,000 in the program, scaled down).
max_buffer == 2
\* Configured max_concurrent_jobs (the semaphore's permits; default 8).
max_concurrent_jobs == 1
\* Capacity of the completed-job cache (1000 in the program, scaled down).
max_completed == 2
\* Clock ticks per minute, and the last tick of the clock.
TicksPerMin == 2
MaxNow == 12
\* The largest trust timeout, in minutes, a SetSessionMode carries.
MaxTimeout == 2
\* Configured trust_timeout_mins (default 60).
default_trust_timeout_mins == 1
\* The most arguments a checked request carries, and the longest policy list
\* of a starting configuration.
MaxArgs == 2
MaxStartLen == 2

\* ------------------------------------------------------------------- data
Channels == {"cloud", "ipc"}
Callers == {"cloud", "uid:1000"}
JobIds == {"j1", "j2"}
Modes == {"Inactive", "Strict", "Trust", "AutoAccept"}
\* The callers SetSessionMode messages name.  The operator channel's gate is
\* the policy check, which reads no session.
SessionCallers == {"cloud"}
ExitCodes == {0, 1}

\* The caller tag of a channel: "cloud" on the controller link, the peer's
\* uid on the operator socket.
CallerOf(ch) == IF ch = "cloud" THEN "cloud" ELSE "uid:1000"

\* The job requests the environment sends: an allowed tool, a tool outside
\* the allow list with a timeout, and a denied tool.
ReqShapes ==
  { [tool |-> "ls", timeout_ms |-> 0],
    [tool |-> "curl", timeout_ms |-> 1],
    [tool |-> "rm", timeout_ms |-> 0] }

JobRequests ==
  { [job_id |-> j, tool |-> s.tool, args |-> <<>>, cwd |-> "",
     timeout_ms |-> s.timeout_ms] : j \in JobIds, s \in ReqShapes }

\* The requests sent on a channel.  The controller channel's gate does not
\* read the tool, so one shape is sent there.
RequestsOn(ch) ==
  IF ch = "cloud" THEN { r \in JobRequests : r.tool = "ls" } ELSE JobRequests

NoReq == [job_id |-> "none", tool |-> "", args |-> <<>>, cwd |-> "", timeout_ms |-> 0]

ApprovalResponses ==
  { [job_id |-> j, approved |-> TRUE, remember |-> r, reason |-> ""] :
      j \in JobIds, r \in BOOLEAN }
  \cup
  { [job_id |-> j, approved |-> FALSE, remember |-> FALSE, reason |-> rs] :
      j \in JobIds, rs \in {"", "no"} }

NoResp == [job_id |-> "none", approved |-> FALSE, remember |-> FALSE, reason |-> ""]

\* ------------------------------------------------------------ list helpers
Contains(list, x) == \E i \in 1..Len(list) : list[i] = x

RECURSIVE Retain(_, _)
\* list.retain(|item| !remove.contains(item))
Retain(list, remove) ==
  IF list = <<>> THEN <<>>
  ELSE IF Contains(remove, Head(list)) THEN Retain(Tail(list), remove)
       ELSE <<Head(list)>> \o Retain(Tail(list), remove)

\* ---------------------------------------------------------------- policy
\* The policy the daemon is started with (allowed_tools, denied_tools, ...).
PolicyConfig0 ==
  [allowed_tools |-> <<"ls">>, denied_tools |-> <<"rm">>, denied_paths |-> <<>>,
   allowed_domains |-> <<>>, approval_timeout_secs |-> 86400]

NETWORK_TOOLS ==
  {"curl", "wget", "git", "ssh", "scp", "rsync", "sftp", "nc", "ncat", "nmap",
   "ping", "dig", "nslookup", "http", "https", "fetch"}

\* The arguments the model knows, with what the heuristics read from them:
\* flag (starts with '-'), url host, user@host host, bare host.
ArgKind(arg) ==
  CASE arg = "-v" -> [flag |-> TRUE, url |-> "", ssh |-> "", bare |-> ""]
    [] arg = "https://evil.test/path" -> [flag |-> FALSE, url |-> "evil.test", ssh |-> "", bare |-> ""]
    [] arg = "https://example.com/path" -> [flag |-> FALSE, url |-> "example.com", ssh |-> "", bare |-> ""]
    [] arg = "git@example.com:repo" -> [flag |-> FALSE, url |-> "", ssh |-> "example.com", bare |-> ""]
    [] arg = "evil.test" -> [flag |-> FALSE, url |-> "", ssh |-> "", bare |-> "evil.test"]
    [] OTHER -> [flag |-> FALSE, url |-> "", ssh |-> "", bare |-> ""]

\* tool.rsplit('/').next(): what follows the last '/'.
Basename(tool) ==
  CASE tool = "/usr/bin/curl" -> "curl"
    [] tool = "/bin/ls" -> "ls"
    [] OTHER -> tool

RECURSIVE ExtractFrom(_, _, _)
ExtractFrom(base, args, domains) ==
  IF args = <<>> THEN domains
  ELSE LET k == ArgKind(Head(args))
           host == IF k.flag THEN ""
                   ELSE IF k.url # "" THEN k.url
                   ELSE IF k.ssh # "" THEN k.ssh
                   ELSE IF base \in {"ssh", "ping", "dig", "nslookup", "nc", "ncat"}
                        THEN k.bare ELSE ""
       IN ExtractFrom(base, Tail(args),
                      IF host # "" /\ ~Contains(domains, host)
                      THEN Append(domains, host) ELSE domains)

extract_domains(tool, args) ==
  IF Basename(tool) \notin NETWORK_TOOLS THEN <<>>
  ELSE ExtractFrom(Basename(tool), args, <<>>)

\* A faulty prefix test, used to validate the denied-path step: the paths
\* are compared whole.
starts_with_whole(s, prefix) == s = prefix

\* str::starts_with on the paths the model knows: a byte prefix, not a path
\* component prefix.
starts_with(s, prefix) ==
  \/ prefix = ""
  \/ s = prefix
  \/ prefix = "/etc" /\ s \in {"/etc/ssh", "/etcetera"}
  \/ prefix = "/" /\ s \in {"/etc", "/etc/ssh", "/etcetera", "/home"}

\* A faulty domain filter, used to validate the domain step: the caller's
\* remembered domains are not consulted.
unapproved_ignoring_memory(cfg, approvals, detected) ==
  SelectSeq(detected, LAMBDA d : ~Contains(cfg.allowed_domains, d))

\* The detected domains that are neither in allowed_domains nor remembered
\* for the caller, in detection order.
unapproved_domains(cfg, approvals, detected) ==
  SelectSeq(detected,
            LAMBDA d : ~Contains(cfg.allowed_domains, d) /\ <<"domain", d>> \notin approvals)

\* PolicyChecker::check: the decision and, for NeedsApproval, the domains.
PolicyCheck(cfg, approvals, req) ==
  LET detected == extract_domains(req.tool, req.args)
      tool_remembered == (<<"tool", req.tool>> \in approvals)
      tool_allowed == cfg.allowed_tools = <<>> \/ Contains(cfg.allowed_tools, req.tool)
                      \/ tool_remembered
      unapproved == unapproved_domains(cfg, approvals, detected)
      Result(dec, why, named) ==
        [decision |-> dec, reason |-> why, named |-> named,
         domains |-> IF dec = "NeedsApproval" THEN detected ELSE <<>>]
  IN IF Contains(cfg.denied_tools, req.tool)
     THEN Result("Deny", "tool is in the deny list", <<>>)
     ELSE IF req.cwd # "" /\ \E i \in 1..Len(cfg.denied_paths) :
                               starts_with(req.cwd, cfg.denied_paths[i])
          THEN Result("Deny", "working directory is denied by policy", <<>>)
     ELSE IF ~tool_allowed
          THEN Result("NeedsApproval", "tool is not in the allow list", <<>>)
     ELSE IF detected # <<>> /\ cfg.allowed_domains # <<>> /\ unapproved # <<>>
          THEN Result("NeedsApproval", "domain(s) not in allowed domains", unapproved)
     ELSE Result("Allow", "", <<>>)

\* --------------------------------------------------------------- session
\* A faulty session check, used to validate the Strict-mode property: Strict
\* is treated like AutoAccept.
SessionCheckStrictAllows(mode, expired) ==
  CASE mode \in {"none", "Inactive"} ->
         [decision |-> "Deny", reason |-> "session not activated", mode |-> mode]
    [] mode = "Trust" /\ expired ->
         [decision |-> "Deny", reason |-> "trust expired", mode |-> "Inactive"]
    [] OTHER -> [decision |-> "Allow", reason |-> "", mode |-> mode]

\* A faulty session check, used to validate the Inactive-mode property: an
\* Inactive session is treated like AutoAccept.
SessionCheckInactiveAllows(mode, expired) ==
  CASE mode = "none" ->
         [decision |-> "Deny", reason |-> "session not activated", mode |-> mode]
    [] mode = "Strict" ->
         [decision |-> "NeedsApproval", reason |-> "strict mode", mode |-> mode]
    [] mode = "Trust" /\ expired ->
         [decision |-> "Deny", reason |-> "trust expired", mode |-> "Inactive"]
    [] OTHER -> [decision |-> "Allow", reason |-> "", mode |-> mode]

\* SessionManager::check on the caller's mode ("none": no entry); expired is
\* whether Instant::now() >= trust_expires.  Returns the decision and the
\* caller's mode afterwards.
SessionCheck(mode, expired) ==
  CASE mode = "none" -> [decision |-> "Deny", reason |-> "session not activated", mode |-> mode]
    [] mode = "Inactive" -> [decision |-> "Deny", reason |-> "session not activated", mode |-> mode]
    [] mode = "Strict" -> [decision |-> "NeedsApproval", reason |-> "strict mode", mode |-> mode]
    [] mode = "Trust" ->
         IF expired
         THEN [decision |-> "Deny", reason |-> "trust expired", mode |-> "Inactive"]
         ELSE [decision |-> "Allow", reason |-> "", mode |-> mode]
    [] mode = "AutoAccept" -> [decision |-> "Allow", reason |-> "", mode |-> mode]

\* Option::None for an Instant.
None == -1

\* A faulty expiry, used to validate the trust window: the minutes are taken
\* for ticks.
trust_expiry_unscaled(at, timeout_mins) == at + timeout_mins

\* Instant::now() + Duration::from_secs(timeout * 60), in ticks.
trust_expiry(at, timeout_mins) == at + timeout_mins * TicksPerMin

\* set_mode: trust_timeout_mins == 0 selects the configured default.
EffectiveTimeout(t) == IF t = 0 THEN default_trust_timeout_mins ELSE t

\* -------------------------------------------------------------- registry
\* JobRegistry::is_known: the running map first, then the completed cache.
is_known(running, cache, j) ==
  IF running[j] # 0 THEN "Running"
  ELSE IF \E i \in 1..Len(cache) : cache[i].job_id = j THEN "Completed"
  ELSE "Unknown"

\* A faulty cache lookup, used to validate the cached reply: it returns the
\* oldest entry whatever its id.
CompletedResultOldest(cache, j) == cache[1]

\* The cached result is_known returns: the first entry with that id.
CompletedResult(cache, j) ==
  cache[CHOOSE i \in 1..Len(cache) :
          cache[i].job_id = j /\ \A k \in 1..(i-1) : cache[k].job_id # j]

RECURSIVE EvictOver(_, _)
\* while len > cap { pop_front }
EvictOver(q, cap) == IF Len(q) > cap THEN EvictOver(Tail(q), cap) ELSE q

\* A faulty mark_completed, used to validate the eviction order: on a full
\* cache the new result is dropped instead of the oldest.
mark_completed_keep_oldest(cache, j, code, err) ==
  IF Len(cache) >= max_completed THEN cache
  ELSE Append(cache, [job_id |-> j, exit_code |-> code, error |-> err])

\* JobRegistry::mark_completed
mark_completed(cache, j, code, err) ==
  EvictOver(Append(cache, [job_id |-> j, exit_code |-> code, error |-> err]),
            max_completed)

\* A faulty semaphore, used to validate the concurrency bound: acquire never
\* waits.
PermitAlwaysAvailable(sem) == TRUE

\* Semaphore::acquire_owned completes only while a permit is available.
PermitAvailable(sem) == sem > 0

\* ---------------------------------------------------------------- outbox
\* A faulty stamp, used to validate the seq property: next_seq is not advanced.
stamp_repeat(nseq, lack) == [seq |-> nseq, ack |-> lack, next_seq |-> nseq]

\* Outbox::stamp: the seq and ack written into the envelope, and next_seq after.
stamp(nseq, lack) == [seq |-> nseq, ack |-> lack, next_seq |-> nseq + 1]

\* A faulty store, used to validate the capacity of the buffer: nothing is
\* evicted.
store_unbounded(buf, seq, data) == Append(buf, [seq |-> seq, data |-> data])

\* A faulty store, used to validate the store-before-write order: nothing is
\* kept.
store_nothing(buf, seq, data) == buf

\* Outbox::store: push_back, then evict the oldest while over capacity.
store(buf, seq, data) == EvictOver(Append(buf, [seq |-> seq, data |-> data]), max_buffer)

\* A faulty on_recv, used to validate the ack watermark: the last seq
\* received overwrites local_ack.
on_recv_overwrite(lack, seq) == seq

\* Outbox::on_recv
on_recv(lack, seq) == IF seq > lack THEN seq ELSE lack

\* Outbox::on_peer_ack, the watermark ...
AdvanceAck(pack, ack) == IF ack > pack THEN ack ELSE pack

RECURSIVE PopBelow(_, _)
\* A faulty pop loop, used to validate the ack property: it stops at
\* seq = peer_ack.
PopBelow(buf, pack) ==
  IF buf # <<>> /\ Head(buf).seq < pack THEN PopBelow(Tail(buf), pack) ELSE buf

\* A faulty pop, used to validate what an ack leaves: one entry is popped
\* where the loop pops all that are acknowledged.
PopFrontOnce(buf, pack) ==
  IF buf # <<>> /\ Head(buf).seq <= pack THEN Tail(buf) ELSE buf

RECURSIVE PopAcked(_, _)
\* ... and the loop popping the front while its seq <= self.peer_ack.
PopAcked(buf, pack) ==
  IF buf # <<>> /\ Head(buf).seq <= pack THEN PopAcked(Tail(buf), pack) ELSE buf

\* A faulty drain, used to validate the replay property: newest first.
drain_newest_first(buf) == [i \in 1..Len(buf) |-> buf[Len(buf) + 1 - i].data]

\* Outbox::drain_unacked: the encoded bytes of every buffered entry, in order.
drain_unacked(buf) == [i \in 1..Len(buf) |-> buf[i].data]

\* A faulty Hello, used to validate its payload: last_ack is left at 0.
HelloWithoutAck(last_ack) == [kind |-> "Hello", id |-> 0, seq |-> 0, ack |-> 0]

\* The Hello envelope: not stamped (seq 0), carrying last_ack.
HelloEnvelope(last_ack) == [kind |-> "Hello", id |-> 0, seq |-> 0, ack |-> last_ack]

\* ------------------------------------------------------------------ state
VARIABLES
  connection_mode,   \* Config::connection_mode: "ahand-cloud" | "openclaw-gateway"
  sessions,          \* SessionManager.sessions: caller -> mode ("none": no entry)
  refusal_log,       \* SessionManager.refusal_log: tools of the recorded refusals
  session_approvals, \* PolicyChecker.session_approvals: caller -> remembered keys
  config,            \* PolicyChecker.config
  pending,           \* ApprovalManager.pending: job id -> waiter task (0: none)
  jobs,              \* JobRegistry.jobs: job id -> task owning the cancel receiver
  completed,         \* JobRegistry.completed
  semaphore,         \* permits available
  tasks,             \* the approval waiters / executor tasks, by slot
  cancelWait,        \* a read loop suspended inside registry.cancel (holding the jobs lock)
  accepted,          \* job id -> JobRequests that found the id Unknown
  terminals,         \* job id -> JobFinished / JobRejected envelopes sent by the pipeline
  rejected,          \* the last JobRejected envelope sent: job id, reason, channel
  cached_reply,      \* the last JobFinished synthesized from the completed cache, and how many
  runs,              \* job id -> run_job invocations
  sysRuns,           \* children started by the gateway dialect's system.run
  nMsg,              \* messages processed by the read loops
  conn,              \* connect(): "down" | "replay" | "open" | "closing"
  nConn,             \* connections opened so far
  next_seq,          \* Outbox.next_seq
  peer_ack,          \* Outbox.peer_ack
  local_ack,         \* Outbox.local_ack
  buffer,            \* Outbox.buffer: <<[seq, data]>>
  unacked,           \* connect(): the drained envelopes still to replay
  snapshot,          \* the outbox buffer as it was when this connection drained it
  wire,              \* frames written to the current connection's sink
  chan,              \* the per-connection channel: envelopes not yet received by the send task
  sender,            \* the send task: "none" | "alive" | "ended"
  emitters,          \* per emitter task: its sender clone, "none" | "live" | "dead"
  nEmitted,          \* envelopes emitted through sender clones
  lost,              \* ids of the envelopes dropped without being stamped
  stamped,           \* the seq values stamp() returned, in call order
  nPeer,             \* envelopes received from the controller
  now,               \* Instant::now(), in ticks
  trust,             \* CallerSession.trust_expires / trust_timeout_mins, by caller
  asked,             \* by caller: the timeout passed to the last set_mode, and the tick
                     \* of the last set_mode or allowed check
  call,              \* the last call made on a component, with its result
  exec,              \* one run_job invocation: the child, its pipes, the two reader
                     \* tasks, the select, and the outbound channel
  frames,            \* the read loop of a connection, by channel: open or not, frames
                     \* read, envelopes dispatched, the kind of the last frame
  reconnect          \* run(): backoff, attempts, the last connect outcome and delay

jobVars ==
  <<sessions, refusal_log, session_approvals, config, pending, jobs, completed,
    semaphore, tasks, cancelWait, accepted, terminals, rejected, cached_reply,
    runs, sysRuns, nMsg>>

outboxVars == <<next_seq, peer_ack, local_ack, buffer>>

linkVars ==
  <<conn, nConn, unacked, snapshot, wire, chan, sender, emitters, nEmitted, lost,
    stamped, nPeer>>

\* The state the component-level specifications add to the daemon's.
unitVars == <<now, trust, asked, call, exec, frames, reconnect>>

vars == <<connection_mode, jobVars, outboxVars, linkVars, unitVars>>

\* No cached JobFinished sent yet.
NoCached == [job_id |-> "none", exit_code |-> 0, error |-> "", ch |-> "none", n |-> 0]

\* No JobRejected envelope sent yet.
NoReject == [job_id |-> "none", reason |-> "", ch |-> "none"]

FreeTask ==
  [pc |-> "free", req |-> NoReq, ch |-> "none", consent |-> "none", strict |-> FALSE,
   oneshot |-> "none", resp |-> NoResp, got |-> "none",
   cancel_buf |-> 0, permit |-> FALSE, child |-> FALSE, events |-> 0,
   exit_code |-> 0, error |-> ""]

\* A caller without a session entry: the values a new entry would get.
NoTrust == [trust_expires |-> None, trust_timeout_mins |-> default_trust_timeout_mins]

\* No set_mode made for the caller yet.
NotAsked == [t |-> 0, at |-> 0]

\* No component call made yet.
NoCall == [op |-> "none", caller |-> "none", result |-> "none"]

\* A connection's read loop before its first frame.
NoFrames == [open |-> TRUE, read |-> 0, dispatched |-> 0, last |-> "none"]

\* run() before the first connect: let mut backoff = 1u64.
StartReconnect ==
  [pc |-> "connecting", backoff |-> 1, attempts |-> 0, run |-> 0, outcome |-> "none",
   delay |-> 0]

\* The two pipes of a child.
Streams == {"stdout", "stderr"}

\* No run_job invocation under way.
NoExec ==
  [pc |-> "none", timeout_ms |-> 0, child |-> "none", code |-> 0, cancel |-> 0,
   written |-> [s \in Streams |-> 0], read |-> [s \in Streams |-> 0],
   reader |-> [s \in Streams |-> "none"], path |-> "none", out |-> <<>>]

TaskIds == 1..MaxTasks
EmitterIds == 1..MaxEmitters

\* Everything but the policy checker's state and the executor unit's.
InitBase ==
  /\ connection_mode \in {"ahand-cloud", "openclaw-gateway"}
  /\ sessions = [c \in Callers |-> "none"]
  /\ refusal_log = <<>>
  /\ pending = [j \in JobIds |-> 0]
  /\ jobs = [j \in JobIds |-> 0]
  /\ completed = <<>>
  /\ semaphore = max_concurrent_jobs
  /\ tasks = [t \in TaskIds |-> FreeTask]
  /\ cancelWait = [ch |-> "none", t |-> 0]
  /\ accepted = [j \in JobIds |-> 0]
  /\ terminals = [j \in JobIds |-> 0]
  /\ rejected = NoReject
  /\ cached_reply = NoCached
  /\ runs = [j \in JobIds |-> 0]
  /\ sysRuns = 0
  /\ nMsg = 0
  /\ conn = "down"
  /\ nConn = 0
  /\ next_seq = 1
  /\ peer_ack = 0
  /\ local_ack = 0
  /\ buffer = <<>>
  /\ unacked = <<>>
  /\ snapshot = <<>>
  /\ wire = <<>>
  /\ chan = <<>>
  /\ sender = "none"
  /\ emitters = [e \in EmitterIds |-> "none"]
  /\ nEmitted = 0
  /\ lost = {}
  /\ stamped = <<>>
  /\ nPeer = 0
  /\ now = 0
  /\ trust = [c \in Callers |-> NoTrust]
  /\ asked = [c \in Callers |-> NotAsked]
  /\ call = NoCall
  /\ frames = [ch \in Channels |-> NoFrames]
  /\ reconnect = StartReconnect

InitRest ==
  /\ InitBase
  /\ exec = NoExec

Init ==
  /\ config = PolicyConfig0
  /\ session_approvals = [c \in Callers |-> {}]
  /\ InitRest

\* The jobs lock is free unless a cancel is suspended inside it.
LockFree == cancelWait.t = 0

\* A channel's read loop can take its next message.
ChReady(ch) ==
  /\ cancelWait.ch # ch
  /\ ch = "cloud" => (connection_mode = "ahand-cloud" /\ conn = "open")

\* A slot for a task to be spawned: the lowest free one.
HasSlot == \E t \in TaskIds : tasks[t].pc = "free"
NewSlot == CHOOSE t \in TaskIds : tasks[t].pc = "free" /\ \A u \in 1..(t-1) : tasks[u].pc # "free"

\* ------------------------------------------------------- approval manager
\* Dropping an entry drops its one-shot sender: a receiver still waiting
\* sees the channel closed.
DropSender(ts, e) ==
  IF e # 0 /\ ts[e].oneshot = "open" THEN [ts EXCEPT ![e].oneshot = "closed"] ELSE ts

\* ApprovalManager::submit: insert (replacing any entry of that job id).
submit_pending(pend, j, t) == [pend EXCEPT ![j] = t]

\* ApprovalManager::expire / the remove in resolve.
remove_pending(pend, j) == [pend EXCEPT ![j] = 0]

\* ------------------------------------------------------------- job request
\* The decision of the channel's gate: the session check on the controller
\* channel, the policy check on the operator channel.
Gate(ch, req, expired) ==
  IF ch = "cloud"
  THEN SessionCheck(sessions[CallerOf(ch)], expired)
  ELSE [decision |-> PolicyCheck(config, session_approvals[CallerOf(ch)], req).decision,
        reason |-> PolicyCheck(config, session_approvals[CallerOf(ch)], req).reason,
        mode |-> sessions[CallerOf(ch)]]

\* spawn_job up to tokio::spawn: register the cancel sender, start the task.
NewExecutor(ch, req, how, wasStrict) ==
  [FreeTask EXCEPT !.pc = "queued", !.req = req, !.ch = ch, !.consent = how,
                   !.strict = wasStrict]

\* The approval waiter spawned after submit.
NewWaiter(ch, req, wasStrict) ==
  [FreeTask EXCEPT !.pc = "await", !.req = req, !.ch = ch, !.oneshot = "open",
                   !.strict = wasStrict]

\* handle_job_request / handle_ipc_conn on a job id the registry knows:
\* Running is dropped, Completed is answered from the cache.
JobRequestKnown(ch, req) ==
  /\ ChReady(ch) /\ LockFree
  /\ nMsg < MaxMessages
  /\ nMsg' = nMsg + 1
  /\ is_known(jobs, completed, req.job_id) # "Unknown"
  /\ cached_reply' =
       IF is_known(jobs, completed, req.job_id) = "Completed"
       THEN LET c == CompletedResult(completed, req.job_id) IN
              [job_id |-> req.job_id, exit_code |-> c.exit_code, error |-> c.error,
               ch |-> ch, n |-> cached_reply.n + 1]
       ELSE cached_reply
  /\ UNCHANGED <<connection_mode, unitVars, rejected, accepted, sessions, refusal_log,
                 session_approvals, config, pending, jobs, completed, semaphore, tasks,
                 cancelWait, terminals, runs, sysRuns, outboxVars, linkVars>>

\* Unknown job id, the gate denies: JobRejected.
JobRequestDeny(ch, req, expired) ==
  /\ ChReady(ch) /\ LockFree
  /\ nMsg < MaxMessages
  /\ nMsg' = nMsg + 1
  /\ accepted' = [accepted EXCEPT ![req.job_id] = @ + 1]
  /\ is_known(jobs, completed, req.job_id) = "Unknown"
  /\ LET d == Gate(ch, req, expired) IN
       /\ d.decision = "Deny"
       /\ sessions' = [sessions EXCEPT ![CallerOf(ch)] = d.mode]
  /\ terminals' = [terminals EXCEPT ![req.job_id] = @ + 1]
  /\ rejected' = [job_id |-> req.job_id, reason |-> Gate(ch, req, expired).reason, ch |-> ch]
  /\ UNCHANGED <<connection_mode, unitVars, cached_reply, refusal_log, session_approvals, config, pending,
                 jobs, completed, semaphore, tasks, cancelWait, runs, sysRuns, outboxVars, linkVars>>

\* Unknown job id, the gate allows: register and spawn the executor task.
JobRequestAllow(ch, req, expired) ==
  /\ ChReady(ch) /\ LockFree
  /\ nMsg < MaxMessages
  /\ nMsg' = nMsg + 1
  /\ accepted' = [accepted EXCEPT ![req.job_id] = @ + 1]
  /\ is_known(jobs, completed, req.job_id) = "Unknown"
  /\ Gate(ch, req, expired).decision = "Allow"
  /\ HasSlot
  /\ tasks' = [tasks EXCEPT ![NewSlot] =
                 NewExecutor(ch, req, IF ch = "cloud" THEN "session" ELSE "policy",
                             ch = "cloud" /\ sessions[CallerOf(ch)] = "Strict")]
  /\ jobs' = [jobs EXCEPT ![req.job_id] = NewSlot]
  /\ UNCHANGED <<connection_mode, unitVars, cached_reply, rejected, sessions, refusal_log, session_approvals,
                 config, pending, completed, semaphore, cancelWait, terminals, runs,
                 sysRuns, outboxVars, linkVars>>

\* Unknown job id, the gate asks for approval: submit, send the
\* ApprovalRequest, spawn the waiter.
JobRequestNeedsApproval(ch, req) ==
  /\ ChReady(ch) /\ LockFree
  /\ nMsg < MaxMessages
  /\ nMsg' = nMsg + 1
  /\ accepted' = [accepted EXCEPT ![req.job_id] = @ + 1]
  /\ is_known(jobs, completed, req.job_id) = "Unknown"
  /\ Gate(ch, req, FALSE).decision = "NeedsApproval"
  /\ HasSlot
  /\ tasks' = [DropSender(tasks, pending[req.job_id]) EXCEPT ![NewSlot] =
                 NewWaiter(ch, req, ch = "cloud" /\ sessions[CallerOf(ch)] = "Strict")]
  /\ pending' = submit_pending(pending, req.job_id, NewSlot)
  /\ UNCHANGED <<connection_mode, unitVars, cached_reply, rejected, sessions, refusal_log, session_approvals,
                 config, jobs, completed, semaphore, cancelWait, terminals, runs,
                 sysRuns, outboxVars, linkVars>>
\* ------------------------------------------------------ approval response
\* ApprovalManager::resolve as called from the read loops.  On the controller
\* channel a denied response with a reason also records a refusal when the
\* entry was found (client.rs); the operator channel only resolves.
Resolve(ch, resp) ==
  /\ ChReady(ch)
  /\ nMsg < MaxMessages
  /\ nMsg' = nMsg + 1
  /\ LET e == pending[resp.job_id] IN
       IF e = 0
       THEN UNCHANGED <<pending, tasks, refusal_log>>
       ELSE /\ pending' = remove_pending(pending, resp.job_id)
            /\ tasks' = [tasks EXCEPT
                 ![e].got = IF resp.approved THEN "approved" ELSE "denied",
                 \* result_tx.send: fails silently when the receiver is gone
                 ![e].oneshot = IF @ = "open" THEN "sent" ELSE @,
                 ![e].resp = IF tasks[e].oneshot = "open" THEN resp ELSE @]
            /\ refusal_log' =
                 IF ch = "cloud" /\ ~resp.approved /\ resp.reason # ""
                 THEN Append(refusal_log, tasks[e].req.tool) ELSE refusal_log
  /\ UNCHANGED <<connection_mode, unitVars, cached_reply, rejected, accepted, sessions, session_approvals,
                 config, jobs, completed, semaphore, cancelWait, terminals, runs,
                 sysRuns, outboxVars, linkVars>>

\* ----------------------------------------------------------------- waiter
\* A faulty memory, used to validate the isolation of callers: an approval
\* is remembered for every caller.
remember_approval_shared(approvals, caller, tool, domains) ==
  [c \in DOMAIN approvals |->
     approvals[c] \cup {<<"tool", tool>>}
       \cup { <<"domain", domains[i]>> : i \in 1..Len(domains) }]

\* PolicyChecker::remember_approval
remember_approval(approvals, caller, tool, domains) ==
  [approvals EXCEPT ![caller] =
     @ \cup {<<"tool", tool>>} \cup { <<"domain", domains[i]>> : i \in 1..Len(domains) }]

\* The waiter receives an approved response: Ok(Ok(resp)) if resp.approved.
\* Controller channel: spawn_job.  Operator channel: remember, register.
WaiterApproved(t) ==
  /\ tasks[t].pc = "await" /\ tasks[t].oneshot = "sent" /\ tasks[t].resp.approved
  /\ LockFree
  /\ session_approvals' =
       IF tasks[t].ch = "ipc" /\ tasks[t].resp.remember
       \* approval_req.detected_domains is always empty (approval.rs submit)
       THEN remember_approval(session_approvals, CallerOf(tasks[t].ch),
                              tasks[t].req.tool, <<>>)
       ELSE session_approvals
  /\ jobs' = [jobs EXCEPT ![tasks[t].req.job_id] = t]
  /\ tasks' = [tasks EXCEPT ![t].pc = "queued", ![t].consent = "approved",
                            ![t].oneshot = "done", ![t].resp = NoResp]
  /\ UNCHANGED <<connection_mode, unitVars, cached_reply, rejected, accepted, sessions, refusal_log, config,
                 pending, completed, semaphore, cancelWait, terminals, runs, sysRuns,
                 nMsg, outboxVars, linkVars>>

\* The waiter's rejection: expire the job id's entry, send JobRejected; the
\* task ends.
Reject(t, why) ==
  LET j == tasks[t].req.job_id IN
    /\ pending' = remove_pending(pending, j)
    /\ tasks' = [DropSender(tasks, IF pending[j] = t THEN 0 ELSE pending[j]) EXCEPT
                   ![t] = FreeTask]
    /\ terminals' = [terminals EXCEPT ![j] = @ + 1]
    /\ rejected' = [job_id |-> j, reason |-> why, ch |-> tasks[t].ch]
    /\ UNCHANGED cached_reply

\* The waiter receives a denied response.  Controller channel: record the
\* refusal when a reason is given; both channels: expire, JobRejected.
WaiterDenied(t) ==
  /\ tasks[t].pc = "await" /\ tasks[t].oneshot = "sent" /\ ~tasks[t].resp.approved
  /\ refusal_log' =
       IF tasks[t].ch = "cloud" /\ tasks[t].resp.reason # ""
       THEN Append(refusal_log, tasks[t].req.tool) ELSE refusal_log
  /\ Reject(t, IF tasks[t].ch = "ipc" THEN "approval denied or timed out"
                ELSE IF tasks[t].resp.reason = "" THEN "approval denied"
                ELSE "approval denied: " \o tasks[t].resp.reason)
  /\ UNCHANGED <<connection_mode, unitVars, accepted, sessions, session_approvals, config, jobs,
                 completed, semaphore, cancelWait, runs, sysRuns, nMsg, outboxVars,
                 linkVars>>

\* The one-shot sender was dropped without a response (Ok(Err(_))): the
\* catch-all branch rejects the job as timed out.
WaiterClosed(t) ==
  /\ tasks[t].pc = "await" /\ tasks[t].oneshot = "closed"
  /\ Reject(t, IF tasks[t].ch = "ipc" THEN "approval denied or timed out"
                ELSE "approval timed out")
  /\ UNCHANGED <<connection_mode, unitVars, accepted, sessions, refusal_log, session_approvals,
                 config, jobs, completed, semaphore, cancelWait, runs, sysRuns, nMsg,
                 outboxVars, linkVars>>

\* tokio::time::timeout elapses with no response: Err(Elapsed); the receiver
\* is dropped with the timeout future.
WaiterElapsed(t) ==
  /\ tasks[t].pc = "await" /\ tasks[t].oneshot = "open"
  /\ tasks' = [tasks EXCEPT ![t].pc = "elapsed", ![t].oneshot = "rx_dropped"]
  /\ UNCHANGED <<connection_mode, unitVars, cached_reply, rejected, accepted, sessions, refusal_log,
                 session_approvals, config, pending, jobs, completed, semaphore,
                 cancelWait, terminals, runs, sysRuns, nMsg, outboxVars, linkVars>>

\* The timed-out waiter expires the entry and sends JobRejected.
WaiterExpire(t) ==
  /\ tasks[t].pc = "elapsed"
  /\ Reject(t, IF tasks[t].ch = "ipc" THEN "approval denied or timed out"
                ELSE "approval timed out")
  /\ UNCHANGED <<connection_mode, unitVars, accepted, sessions, refusal_log, session_approvals,
                 config, jobs, completed, semaphore, cancelWait, runs, sysRuns, nMsg,
                 outboxVars, linkVars>>

\* --------------------------------------------------------------- executor
\* A faulty cancel arm, used to validate the cancel property: it fires only
\* when every sender is gone and ignores a buffered signal.
CancelSeenOnlyWhenClosed(t) == jobs[tasks[t].req.job_id] # t

\* The cancel receiver of task t sees a signal: one is buffered, or every
\* sender is gone (recv() yields None, which the select! arm also takes).
CancelSeen(t) == tasks[t].cancel_buf = 1 \/ jobs[tasks[t].req.job_id] # t

\* run_job returns after finish(): JobFinished is sent, the cancel receiver
\* is dropped (a cancel suspended on it fails and lets the lock go).
Finish(t, code, err) ==
  /\ tasks' = [tasks EXCEPT ![t].pc = "returned", ![t].child = FALSE,
                            ![t].exit_code = code, ![t].error = err,
                            ![t].cancel_buf = 0, ![t].events = 0]
  /\ terminals' = [terminals EXCEPT ![tasks[t].req.job_id] = @ + 1]
  /\ cancelWait' = IF cancelWait.t = t THEN [ch |-> "none", t |-> 0] ELSE cancelWait

\* spawn_job's task: acquire a permit, enter run_job, spawn the child.
StartJob(t) ==
  /\ tasks[t].pc = "queued"
  /\ PermitAvailable(semaphore)
  /\ semaphore' = semaphore - 1
  /\ runs' = [runs EXCEPT ![tasks[t].req.job_id] = @ + 1]
  /\ tasks' = [tasks EXCEPT ![t].pc = "running", ![t].permit = TRUE, ![t].child = TRUE]
  /\ UNCHANGED <<connection_mode, unitVars, cached_reply, rejected, accepted, sessions, refusal_log,
                 session_approvals, config, pending, jobs, completed, cancelWait,
                 terminals, sysRuns, nMsg, outboxVars, linkVars>>

\* cmd.spawn() fails: finish(-1, <spawn error>) and return.
SpawnFails(t) ==
  /\ tasks[t].pc = "queued"
  /\ PermitAvailable(semaphore)
  /\ semaphore' = semaphore - 1
  /\ runs' = [runs EXCEPT ![tasks[t].req.job_id] = @ + 1]
  /\ tasks' = [tasks EXCEPT ![t].pc = "returned", ![t].permit = TRUE,
                            ![t].exit_code = -1, ![t].error = "spawn error",
                            ![t].cancel_buf = 0]
  /\ terminals' = [terminals EXCEPT ![tasks[t].req.job_id] = @ + 1]
  /\ cancelWait' = IF cancelWait.t = t THEN [ch |-> "none", t |-> 0] ELSE cancelWait
  /\ UNCHANGED <<connection_mode, unitVars, cached_reply, rejected, accepted, sessions, refusal_log,
                 session_approvals, config, pending, jobs, completed, sysRuns, nMsg,
                 outboxVars, linkVars>>

\* A reader task reads a chunk and sends a JobEvent.
EmitEvent(t) ==
  /\ tasks[t].pc = "running"
  /\ tasks[t].events < MaxChunks
  /\ tasks' = [tasks EXCEPT ![t].events = @ + 1]
  /\ UNCHANGED <<connection_mode, unitVars, cached_reply, rejected, accepted, sessions, refusal_log,
                 session_approvals, config, pending, jobs, completed, semaphore,
                 cancelWait, terminals, runs, sysRuns, nMsg, outboxVars, linkVars>>

\* child.wait() returns a status: readers drain, finish(code, "").
ChildExit(t, code) ==
  /\ tasks[t].pc = "running"
  /\ Finish(t, code, "")
  /\ UNCHANGED <<connection_mode, unitVars, cached_reply, rejected, accepted, sessions, refusal_log,
                 session_approvals, config, pending, jobs, completed, semaphore, runs,
                 sysRuns, nMsg, outboxVars, linkVars>>

\* child.wait() itself fails: finish(-1, <wait error>).
ChildWaitError(t) ==
  /\ tasks[t].pc = "running"
  /\ Finish(t, -1, "wait error")
  /\ UNCHANGED <<connection_mode, unitVars, cached_reply, rejected, accepted, sessions, refusal_log,
                 session_approvals, config, pending, jobs, completed, semaphore, runs,
                 sysRuns, nMsg, outboxVars, linkVars>>

\* timeout_ms > 0 elapses first: kill, await readers, finish(-1, "timeout").
JobTimeout(t) ==
  /\ tasks[t].pc = "running"
  /\ tasks[t].req.timeout_ms > 0
  /\ Finish(t, -1, "timeout")
  /\ UNCHANGED <<connection_mode, unitVars, cached_reply, rejected, accepted, sessions, refusal_log,
                 session_approvals, config, pending, jobs, completed, semaphore, runs,
                 sysRuns, nMsg, outboxVars, linkVars>>

\* cancel_rx.recv() wins the select!: kill, await readers,
\* finish(-1, "cancelled").
CancelRecv(t) ==
  /\ tasks[t].pc = "running"
  /\ CancelSeen(t)
  /\ Finish(t, -1, "cancelled")
  /\ UNCHANGED <<connection_mode, unitVars, cached_reply, rejected, accepted, sessions, refusal_log,
                 session_approvals, config, pending, jobs, completed, semaphore, runs,
                 sysRuns, nMsg, outboxVars, linkVars>>

\* reg.remove(&job_id): drops the running entry of that job id.
Remove(t) ==
  /\ tasks[t].pc = "returned"
  /\ LockFree
  /\ jobs' = [jobs EXCEPT ![tasks[t].req.job_id] = 0]
  /\ tasks' = [tasks EXCEPT ![t].pc = "removed"]
  /\ UNCHANGED <<connection_mode, unitVars, cached_reply, rejected, accepted, sessions, refusal_log,
                 session_approvals, config, pending, completed, semaphore, cancelWait,
                 terminals, runs, sysRuns, nMsg, outboxVars, linkVars>>

\* The (exit_code, error) tuple run_job returns to spawn_job: the arguments
\* of its call of finish.
run_job_returns(task) == [exit_code |-> task.exit_code, error |-> task.error]

\* reg.mark_completed(job_id, exit_code, error); the task ends and its
\* permit is dropped.
MarkCompleted(t) ==
  /\ tasks[t].pc = "removed"
  /\ completed' = mark_completed(completed, tasks[t].req.job_id,
                                 run_job_returns(tasks[t]).exit_code,
                                 run_job_returns(tasks[t]).error)
  /\ semaphore' = semaphore + 1
  /\ tasks' = [tasks EXCEPT ![t] = FreeTask]
  /\ UNCHANGED <<connection_mode, unitVars, cached_reply, rejected, accepted, sessions, refusal_log,
                 session_approvals, config, pending, jobs, cancelWait, terminals, runs,
                 sysRuns, nMsg, outboxVars, linkVars>>

\* ----------------------------------------------------------------- cancel
\* A faulty cancel, used to validate the queued-job property: the signal is
\* sent only to a job that is already running, and is lost otherwise.
CancelJobRunningOnly(ch, j) ==
  /\ ChReady(ch) /\ LockFree
  /\ nMsg < MaxMessages
  /\ nMsg' = nMsg + 1
  /\ LET t == jobs[j] IN
       IF t = 0 \/ tasks[t].pc # "running" \/ tasks[t].cancel_buf = 1
       THEN UNCHANGED <<tasks, cancelWait>>
       ELSE /\ tasks' = [tasks EXCEPT ![t].cancel_buf = 1]
            /\ UNCHANGED cancelWait
  /\ UNCHANGED <<connection_mode, unitVars, cached_reply, rejected, accepted, sessions,
                 refusal_log, session_approvals, config, pending, jobs, completed,
                 semaphore, terminals, runs, sysRuns, outboxVars, linkVars>>

\* JobRegistry::cancel from a read loop: under the jobs lock, send on the
\* job's capacity-1 cancel channel.  A full channel suspends the send with
\* the lock held; a dropped receiver makes it fail.
CancelJob(ch, j) ==
  /\ ChReady(ch) /\ LockFree
  /\ nMsg < MaxMessages
  /\ nMsg' = nMsg + 1
  /\ LET t == jobs[j] IN
       IF t = 0 \/ tasks[t].pc \notin {"queued", "running"}
       THEN UNCHANGED <<tasks, cancelWait>>
       ELSE IF tasks[t].cancel_buf = 0
            THEN /\ tasks' = [tasks EXCEPT ![t].cancel_buf = 1]
                 /\ UNCHANGED cancelWait
            ELSE /\ cancelWait' = [ch |-> ch, t |-> t]
                 /\ UNCHANGED tasks
  /\ UNCHANGED <<connection_mode, unitVars, cached_reply, rejected, accepted, sessions, refusal_log,
                 session_approvals, config, pending, jobs, completed, semaphore,
                 terminals, runs, sysRuns, outboxVars, linkVars>>

\* ---------------------------------------------------------- session mode
\* SessionManager::set_mode
set_mode(sess, caller, m) == [sess EXCEPT ![caller] = m]

\* A faulty registration, used to validate that reconnecting keeps the
\* session: the caller is made Inactive whether it was registered or not.
register_caller_reset(sess, caller) == [sess EXCEPT ![caller] = "Inactive"]

\* SessionManager::register_caller: insert Inactive unless present.
register_caller(sess, caller) ==
  IF sess[caller] = "none" THEN [sess EXCEPT ![caller] = "Inactive"] ELSE sess

\* handle_set_session_mode on the controller channel.
SetSessionMode(caller, m) ==
  /\ ChReady("cloud")
  /\ nMsg < MaxMessages
  /\ nMsg' = nMsg + 1
  /\ sessions' = set_mode(sessions, caller, m)
  /\ UNCHANGED <<connection_mode, unitVars, cached_reply, rejected, accepted, refusal_log, session_approvals,
                 config, pending, jobs, completed, semaphore, tasks, cancelWait,
                 terminals, runs, sysRuns, outboxVars, linkVars>>

\* --------------------------------------------------------- gateway dialect
\* OpenClawHandler::handle_system_run: decodes the parameters and calls
\* run_command, which spawns /bin/sh -c <command>.
SystemRun ==
  /\ connection_mode = "openclaw-gateway"
  /\ sysRuns < MaxSystemRuns
  /\ sysRuns' = sysRuns + 1
  /\ UNCHANGED <<connection_mode, unitVars, cached_reply, rejected, accepted, sessions, refusal_log,
                 session_approvals, config, pending, jobs, completed, semaphore, tasks,
                 cancelWait, terminals, runs, nMsg, outboxVars, linkVars>>

\* ------------------------------------------------------------ connection
\* connect(), up to the replay: the socket opens, Hello (carrying
\* outbox.local_ack()) is written, the outbox is drained for replay.
Connect ==
  /\ connection_mode = "ahand-cloud"
  /\ conn = "down"
  /\ nConn < MaxConnects
  /\ nConn' = nConn + 1
  /\ wire' = <<HelloEnvelope(local_ack)>>
  /\ unacked' = drain_unacked(buffer)
  /\ snapshot' = buffer
  /\ conn' = "replay"
  /\ UNCHANGED <<connection_mode, unitVars, jobVars, outboxVars, chan, sender, emitters,
                 nEmitted, lost, stamped, nPeer>>

\* The replay loop writes the next drained envelope.
ReplayStep ==
  /\ conn = "replay"
  /\ unacked # <<>>
  /\ wire' = Append(wire, Head(unacked))
  /\ unacked' = Tail(unacked)
  /\ UNCHANGED <<connection_mode, unitVars, jobVars, outboxVars, conn, nConn, snapshot, chan,
                 sender, emitters, nEmitted, lost, stamped, nPeer>>

\* A replay write fails: connect returns the error.
ReplayFails ==
  /\ conn = "replay"
  /\ unacked # <<>>
  /\ conn' = "down"
  /\ unacked' = <<>>
  /\ UNCHANGED <<connection_mode, unitVars, jobVars, outboxVars, nConn, snapshot, wire, chan,
                 sender, emitters, nEmitted, lost, stamped, nPeer>>

\* After the replay: the per-connection channel and the send task are
\* created, the cloud caller is registered, the read loop starts.
Open ==
  /\ conn = "replay"
  /\ unacked = <<>>
  /\ conn' = "open"
  /\ chan' = <<>>
  /\ sender' = "alive"
  /\ sessions' = register_caller(sessions, "cloud")
  /\ UNCHANGED <<connection_mode, unitVars, cached_reply, rejected, accepted, refusal_log, session_approvals,
                 config, pending, jobs, completed, semaphore, tasks, cancelWait,
                 terminals, runs, sysRuns, nMsg, outboxVars, nConn, unacked, snapshot,
                 wire, emitters, nEmitted, lost, stamped, nPeer>>

\* The read loop receives an envelope: on_recv when seq > 0, on_peer_ack
\* when ack > 0.
PeerMessage(seq, ack) ==
  /\ conn = "open"
  /\ nPeer < MaxPeerMsgs
  /\ nPeer' = nPeer + 1
  /\ local_ack' = IF seq > 0 THEN on_recv(local_ack, seq) ELSE local_ack
  /\ peer_ack' = IF ack > 0 THEN AdvanceAck(peer_ack, ack) ELSE peer_ack
  /\ buffer' = IF ack > 0 THEN PopAcked(buffer, AdvanceAck(peer_ack, ack)) ELSE buffer
  /\ UNCHANGED <<connection_mode, unitVars, jobVars, next_seq, conn, nConn, unacked, snapshot,
                 wire, chan, sender, emitters, nEmitted, lost, stamped>>

\* The read loop ends (read error, Close frame, end of stream): connect
\* drops its sender and waits for the send task.
ReadLoopEnds ==
  /\ conn = "open"
  /\ conn' = "closing"
  /\ UNCHANGED <<connection_mode, unitVars, jobVars, outboxVars, nConn, unacked, snapshot, wire,
                 chan, sender, emitters, nEmitted, lost, stamped, nPeer>>

\* A message handler spawns a task (executor, approval waiter) holding a
\* clone of the connection's sender.
EmitterStart(e) ==
  /\ conn = "open"
  /\ emitters[e] = "none"
  /\ emitters' = [emitters EXCEPT ![e] = IF sender = "alive" THEN "live" ELSE "dead"]
  /\ UNCHANGED <<connection_mode, unitVars, jobVars, outboxVars, conn, nConn, unacked, snapshot,
                 wire, chan, sender, nEmitted, lost, stamped, nPeer>>

\* tx.send(envelope) from such a task: queued while the receiver lives,
\* otherwise the error is ignored and the envelope is gone.
Emit(e) ==
  /\ emitters[e] # "none"
  /\ nEmitted < MaxEnvelopes
  /\ nEmitted' = nEmitted + 1
  /\ IF emitters[e] = "live"
     THEN /\ chan' = Append(chan, nEmitted + 1)
          /\ UNCHANGED lost
     ELSE /\ lost' = lost \cup {nEmitted + 1}
          /\ UNCHANGED chan
  /\ UNCHANGED <<connection_mode, unitVars, jobVars, outboxVars, conn, nConn, unacked, snapshot,
                 wire, sender, emitters, stamped, nPeer>>

\* The task ends and drops its clone.
EmitterEnd(e) ==
  /\ emitters[e] # "none"
  /\ emitters' = [emitters EXCEPT ![e] = "none"]
  /\ UNCHANGED <<connection_mode, unitVars, jobVars, outboxVars, conn, nConn, unacked, snapshot,
                 wire, chan, sender, nEmitted, lost, stamped, nPeer>>

\* The send task receives an envelope: prepare_outbound (stamp, encode,
\* store), then the write.  A failed write ends the task: the receiver is
\* dropped with whatever is still queued.
SendStep(ok) ==
  /\ sender = "alive"
  /\ chan # <<>>
  /\ LET st == stamp(next_seq, local_ack)
         data == [kind |-> "Envelope", id |-> Head(chan), seq |-> st.seq, ack |-> st.ack]
     IN /\ next_seq' = st.next_seq
        /\ stamped' = Append(stamped, st.seq)
        /\ buffer' = store(buffer, st.seq, data)
        /\ IF ok
           THEN /\ wire' = Append(wire, data)
                /\ chan' = Tail(chan)
                /\ UNCHANGED <<sender, emitters, lost>>
           ELSE /\ sender' = "ended"
                /\ chan' = <<>>
                /\ lost' = lost \cup { chan[i] : i \in 2..Len(chan) }
                /\ emitters' = [e \in EmitterIds |->
                                  IF emitters[e] = "live" THEN "dead" ELSE emitters[e]]
                /\ UNCHANGED wire
  /\ UNCHANGED <<connection_mode, unitVars, jobVars, peer_ack, local_ack, conn, nConn, unacked,
                 snapshot, nEmitted, nPeer>>

\* rx.recv() yields None: every sender clone is dropped and the queue is empty.
SendTaskExit ==
  /\ sender = "alive"
  /\ conn = "closing"
  /\ chan = <<>>
  /\ \A e \in EmitterIds : emitters[e] # "live"
  /\ sender' = "ended"
  /\ UNCHANGED <<connection_mode, unitVars, jobVars, outboxVars, conn, nConn, unacked, snapshot,
                 wire, chan, emitters, nEmitted, lost, stamped, nPeer>>

\* send_handle.await completes: connect returns Ok, run() loops.
ConnectReturns ==
  /\ conn = "closing"
  /\ sender = "ended"
  /\ conn' = "down"
  /\ sender' = "none"
  /\ UNCHANGED <<connection_mode, unitVars, jobVars, outboxVars, nConn, unacked, snapshot, wire,
                 chan, emitters, nEmitted, lost, stamped, nPeer>>

\* ---------------------------------------------------------- specifications
Next ==
  \/ Connect
  \/ Open
  \/ \E ch \in Channels : \E req \in RequestsOn(ch) : JobRequestKnown(ch, req)
  \/ \E ch \in Channels : \E req \in RequestsOn(ch), x \in BOOLEAN : JobRequestDeny(ch, req, x)
  \/ \E ch \in Channels : \E req \in RequestsOn(ch), x \in BOOLEAN : JobRequestAllow(ch, req, x)
  \/ \E ch \in Channels : \E req \in RequestsOn(ch) : JobRequestNeedsApproval(ch, req)
  \/ \E ch \in Channels, resp \in ApprovalResponses : Resolve(ch, resp)
  \/ \E t \in TaskIds : WaiterApproved(t)
  \/ \E t \in TaskIds : WaiterDenied(t)
  \/ \E t \in TaskIds : WaiterClosed(t)
  \/ \E t \in TaskIds : WaiterElapsed(t)
  \/ \E t \in TaskIds : WaiterExpire(t)
  \/ \E t \in TaskIds : StartJob(t)
  \/ \E t \in TaskIds : SpawnFails(t)
  \/ \E t \in TaskIds : EmitEvent(t)
  \/ \E t \in TaskIds, code \in ExitCodes : ChildExit(t, code)
  \/ \E t \in TaskIds : ChildWaitError(t)
  \/ \E t \in TaskIds : JobTimeout(t)
  \/ \E t \in TaskIds : CancelRecv(t)
  \/ \E t \in TaskIds : Remove(t)
  \/ \E t \in TaskIds : MarkCompleted(t)
  \/ \E ch \in Channels, j \in JobIds : CancelJob(ch, j)
  \/ \E c \in SessionCallers, m \in Modes : SetSessionMode(c, m)
  \/ SystemRun

Spec == Init /\ [][Next]_vars

NextConn ==
  \/ Connect
  \/ ReplayStep
  \/ ReplayFails
  \/ Open
  \/ \E seq \in 0..MaxPeerSeq, ack \in 0..MaxPeerSeq : PeerMessage(seq, ack)
  \/ ReadLoopEnds
  \/ \E e \in EmitterIds : EmitterStart(e)
  \/ \E e \in EmitterIds : Emit(e)
  \/ \E e \in EmitterIds : EmitterEnd(e)
  \/ \E ok \in BOOLEAN : SendStep(ok)
  \/ SendTaskExit
  \/ ConnectReturns

SpecConn == Init /\ [][NextConn]_vars

\* ------------------------------------------------------------- fairness
\* What the scheduler guarantees to a spawned task: a step it can take is
\* eventually taken (timers fire, children exit, locks and permits that are
\* free are obtained).  Messages and failures are not forced.
TaskProgress(t) ==
  \/ WaiterApproved(t) \/ WaiterDenied(t) \/ WaiterClosed(t)
  \/ WaiterElapsed(t) \/ WaiterExpire(t)
  \/ StartJob(t) \/ ChildExit(t, 0) \/ CancelRecv(t)
  \/ Remove(t) \/ MarkCompleted(t)

SpecLive == Spec /\ \A t \in TaskIds : WF_vars(TaskProgress(t))

\* C1 (liveness half): every task spawned for an accepted JobRequest
\* eventually sends the job's terminal envelope (JobRejected by the waiter,
\* JobFinished by run_job) -- never zero terminal envelopes.
C1_NeverZero ==
  \A t \in TaskIds :
    (tasks[t].pc \in {"await", "elapsed", "queued", "running"})
      ~> (tasks[t].pc \in {"returned", "removed", "free"})

\* ----------------------------------------------------------------- claims
\* C2: for every job id, run_job is invoked at most once, whatever
\* JobRequests arrive on the two channels (duplicates included).
C2_RunAtMostOnce == \A j \in JobIds : runs[j] <= 1

\* C3: every child process was authorised by the consent pipeline: a task
\* with a child carries a session, policy or approval decision, and no
\* command runs outside the pipeline.
C3_ConsentBeforeChild ==
  /\ sysRuns = 0
  /\ \A t \in TaskIds :
       tasks[t].child => tasks[t].consent \in {"session", "policy", "approved"}

\* C4: the tasks holding a permit (inside run_job) are at most
\* max_concurrent_jobs, over both channels together, and a task that is
\* registered but has no permit yet has no child process.
C4_PermitBound ==
  /\ Cardinality({ t \in TaskIds : tasks[t].permit }) <= max_concurrent_jobs
  /\ semaphore + Cardinality({ t \in TaskIds : tasks[t].permit }) = max_concurrent_jobs
  /\ \A t \in TaskIds :
       /\ tasks[t].child => tasks[t].permit
       /\ tasks[t].pc = "queued" => ~tasks[t].child /\ ~tasks[t].permit

\* A job of one channel runs while a job of the other channel waits for the
\* permit.
C4_Witness ==
  \E t, u \in TaskIds :
    /\ tasks[t].pc = "running" /\ tasks[t].permit /\ tasks[t].child
    /\ tasks[u].pc = "queued" /\ tasks[u].ch # tasks[t].ch
    /\ jobs[tasks[u].req.job_id] = u

\* C6: a pending approval is resolved by an approved response, a denied
\* response or the timeout, and by nothing else: a waiter never finds its
\* one-shot channel closed with no response and no timeout.
C6_ResolvedByOneOfThree ==
  \A t \in TaskIds : tasks[t].pc = "await" => tasks[t].oneshot # "closed"

C5_SeqGapless ==
  /\ \A i \in 1..Len(stamped) : stamped[i] = i
  /\ next_seq = Len(stamped) + 1

\* Envelopes were stamped on two different connections.
C5_Witness == Len(stamped) >= 3 /\ nConn >= 2 /\ peer_ack > 0

\* C7: no envelope emitted by an executor or waiter is dropped unstamped,
\* whatever happened to the connection it was spawned on.
C7_NothingDropped == lost = {}

\* C8: on each connection the sink receives the Hello, then exactly the
\* envelopes that were in the outbox buffer when it was drained, once each,
\* in increasing seq order with their stored seq, and only then envelopes
\* stamped on this connection.
C8_ReplayExact ==
  conn \in {"replay", "open", "closing"} =>
    LET k == Len(snapshot)
        done == k - Len(unacked)
    IN /\ Len(wire) >= 1 + done
       /\ wire[1].kind = "Hello" /\ wire[1].seq = 0
       /\ conn = "replay" => Len(wire) = 1 + done
       /\ conn # "replay" => done = k
       /\ \A i \in 1..done :
            wire[1 + i] = snapshot[i].data /\ wire[1 + i].seq = snapshot[i].seq
       /\ \A i \in 1..Len(unacked) : unacked[i] = snapshot[done + i].data
       /\ \A i \in 1..(k - 1) : snapshot[i].seq < snapshot[i + 1].seq
       /\ \A i \in (2 + k)..Len(wire) :
            /\ wire[i].kind = "Envelope"
            /\ \A m \in 1..k : wire[i].seq > snapshot[m].seq

\* A connection has replayed two buffered envelopes and then written a new one.
C8_Witness ==
  /\ conn = "open" /\ nConn >= 2
  /\ Len(snapshot) = 2
  /\ Len(wire) > 1 + Len(snapshot)

\* C9: when on_peer_ack(ack) has been processed, every entry left in the
\* buffer has seq > peer_ack, for any ack value.
C9_AckedGone ==
  [][ (\E seq \in 0..MaxPeerSeq, ack \in 1..MaxPeerSeq : PeerMessage(seq, ack))
        => \A i \in 1..Len(buffer') : buffer'[i].seq > peer_ack' ]_vars

\* An ack below the newest seq was processed and entries remain.
C9_Witness ==
  /\ nPeer > 0 /\ peer_ack > 0
  /\ buffer # <<>> /\ Head(buffer).seq = peer_ack + 1
  /\ Len(stamped) > Len(buffer)

\* C11: once a waiter's approval timeout has elapsed, an ApprovalResponse
\* for its job has no effect: resolving it changes neither the refusal log
\* nor any task, and the timed-out job is neither registered nor run.
C11_LateResponseNoEffect ==
  [][ \A ch \in Channels, resp \in ApprovalResponses :
        ( /\ Resolve(ch, resp)
          /\ \E t \in TaskIds : /\ tasks[t].pc = "elapsed"
                                /\ tasks[t].req.job_id = resp.job_id
                                /\ pending[resp.job_id] = t )
        => /\ refusal_log' = refusal_log
           /\ \A t \in TaskIds : tasks'[t].pc = tasks[t].pc ]_vars

SpecCancel == Spec /\ \A t \in TaskIds : WF_vars(CancelRecv(t))

Tick ==
  /\ now < MaxNow
  /\ now' = now + 1
  /\ UNCHANGED <<connection_mode, jobVars, outboxVars, linkVars, trust, asked, call, exec, frames, reconnect>>

\* SessionManager::set_mode(caller, mode, trust_timeout_mins): replaces the
\* caller's entry; Trust gets an expiry, the other modes none.
SessionSetMode(c, m, t) ==
  /\ sessions' = set_mode(sessions, c, m)
  /\ trust' = [trust EXCEPT ![c] =
                 [trust_expires |-> IF m = "Trust"
                                    THEN trust_expiry(now, EffectiveTimeout(t))
                                    ELSE None,
                  trust_timeout_mins |-> EffectiveTimeout(t)]]
  /\ asked' = [asked EXCEPT ![c] = [t |-> t, at |-> now]]
  /\ call' = [op |-> "set_mode", caller |-> c, result |-> m]
  /\ UNCHANGED <<connection_mode, refusal_log, session_approvals, config, pending, jobs,
                 completed, semaphore, tasks, cancelWait, accepted, terminals, rejected,
                 cached_reply, runs, sysRuns, nMsg, outboxVars, linkVars, now, exec, frames, reconnect>>

\* Instant::now() >= trust_expires, for a Trust session that has an expiry.
TrustExpired(c) ==
  /\ sessions[c] = "Trust"
  /\ trust[c].trust_expires # None
  /\ now >= trust[c].trust_expires

\* A faulty check, used to validate the sliding window: an allowed check in
\* Trust mode leaves the expiry where set_mode put it.
SessionCheckNoReset(c) ==
  LET d == SessionCheck(sessions[c], TrustExpired(c)) IN
    /\ sessions' = [sessions EXCEPT ![c] = d.mode]
    /\ trust' = IF TrustExpired(c) THEN [trust EXCEPT ![c].trust_expires = None]
                ELSE trust
    /\ asked' = IF sessions[c] = "Trust" /\ d.decision = "Allow"
                THEN [asked EXCEPT ![c].at = now]
                ELSE asked
    /\ call' = [op |-> "check", caller |-> c, result |-> d.decision]
    /\ UNCHANGED <<connection_mode, refusal_log, session_approvals, config, pending,
                   jobs, completed, semaphore, tasks, cancelWait, accepted, terminals,
                   rejected, cached_reply, runs, sysRuns, nMsg, outboxVars, linkVars, now, exec, frames, reconnect>>

\* SessionManager::check(req, caller): an expired Trust session reverts to
\* Inactive and loses its expiry; an allowed check in Trust mode resets the
\* expiry to now + trust_timeout_mins.
SessionCheckCall(c) ==
  LET d == SessionCheck(sessions[c], TrustExpired(c)) IN
    /\ sessions' = [sessions EXCEPT ![c] = d.mode]
    /\ trust' =
         IF sessions[c] = "Trust" /\ trust[c].trust_expires # None
         THEN [trust EXCEPT ![c].trust_expires =
                 IF TrustExpired(c) THEN None
                 ELSE trust_expiry(now, trust[c].trust_timeout_mins)]
         ELSE trust
    /\ asked' = IF sessions[c] = "Trust" /\ d.decision = "Allow"
                THEN [asked EXCEPT ![c].at = now]
                ELSE asked
    /\ call' = [op |-> "check", caller |-> c, result |-> d.decision]
    /\ UNCHANGED <<connection_mode, refusal_log, session_approvals, config, pending,
                   jobs, completed, semaphore, tasks, cancelWait, accepted, terminals,
                   rejected, cached_reply, runs, sysRuns, nMsg, outboxVars, linkVars, now, exec, frames, reconnect>>

\* The mode get_session_state reports: Inactive for a caller without entry.
ReportedMode(c) == IF sessions[c] = "none" THEN "Inactive" ELSE sessions[c]

\* SessionManager::get_session_state(caller)
GetSessionState(c) ==
  /\ call' = [op |-> "get_session_state", caller |-> c, result |-> ReportedMode(c)]
  /\ UNCHANGED <<connection_mode, jobVars, outboxVars, linkVars, now, trust, asked, exec, frames, reconnect>>

NextTrust ==
  \/ Tick
  \/ \E c \in SessionCallers, m \in Modes, t \in 0..MaxTimeout : SessionSetMode(c, m, t)
  \/ \E c \in SessionCallers : SessionCheckCall(c)
  \/ \E c \in SessionCallers : GetSessionState(c)

SpecTrust == Init /\ [][NextTrust]_vars

\* What a check() of a Trust session returns when the window since the last
\* set_mode or allowed check is w minutes long.
TrustWindow(c, w) ==
  /\ (SessionCheckCall(c) /\ sessions[c] = "Trust")
       => IF now - asked[c].at < w * TicksPerMin
          THEN call'.result = "Allow" /\ sessions'[c] = "Trust"
          ELSE call'.result = "Deny" /\ sessions'[c] = "Inactive"
  /\ (SessionCheckCall(c) /\ sessions[c] = "Inactive")
       => call'.result = "Deny" /\ sessions'[c] = "Inactive"
  /\ (GetSessionState(c) /\ sessions[c] = "Inactive") => call'.result = "Inactive"

SeqsUpTo(S, n) == UNION { [1..k -> S] : k \in 0..n }

\* The elements of a sequence, and how often one occurs in it.
Range(q) == { q[i] : i \in 1..Len(q) }
Count(q, x) == Cardinality({ i \in 1..Len(q) : q[i] = x })

RECURSIVE AddAll(_, _)
\* for item in add { if !list.contains(item) { list.push(item) } }
AddAll(list, add) ==
  IF add = <<>> THEN list
  ELSE AddAll(IF Contains(list, Head(add)) THEN list ELSE Append(list, Head(add)),
              Tail(add))

\* A faulty list update, used to validate the order of the two steps: the
\* additions are made first and the removals afterwards.
apply_list_update_add_first(list, add, remove) == Retain(AddAll(list, add), remove)

\* apply_list_update: remove first, then add what is not there.
apply_list_update(list, add, remove) == AddAll(Retain(list, remove), add)

\* PolicyChecker::apply_update
apply_update(cfg, u) ==
  [allowed_tools |-> apply_list_update(cfg.allowed_tools, u.add_allowed_tools,
                                       u.remove_allowed_tools),
   denied_tools |-> apply_list_update(cfg.denied_tools, u.add_denied_tools,
                                      u.remove_denied_tools),
   denied_paths |-> apply_list_update(cfg.denied_paths, u.add_denied_paths,
                                      u.remove_denied_paths),
   allowed_domains |-> apply_list_update(cfg.allowed_domains, u.add_allowed_domains,
                                         u.remove_allowed_domains),
   approval_timeout_secs |-> IF u.approval_timeout_secs > 0
                             THEN u.approval_timeout_secs
                             ELSE cfg.approval_timeout_secs]

\* PolicyChecker::get_state: the five fields, cloned into a PolicyState.
get_state(cfg) ==
  [allowed_tools |-> cfg.allowed_tools, denied_tools |-> cfg.denied_tools,
   denied_paths |-> cfg.denied_paths, allowed_domains |-> cfg.allowed_domains,
   approval_timeout_secs |-> cfg.approval_timeout_secs]

ListNames == {"allowed_tools", "denied_tools", "denied_paths", "allowed_domains"}

\* The entries the policy lists of the model hold.
ItemsOf(l) ==
  CASE l = "allowed_tools" -> {"curl"}
    [] l = "denied_tools" -> {"rm"}
    [] l = "denied_paths" -> {"/etc"}
    [] l = "allowed_domains" -> {"example.com", "evil.test"}

\* A PolicyUpdate that changes nothing.
NoUpdate ==
  [add_allowed_tools |-> <<>>, remove_allowed_tools |-> <<>>,
   add_denied_tools |-> <<>>, remove_denied_tools |-> <<>>,
   add_denied_paths |-> <<>>, remove_denied_paths |-> <<>>,
   add_allowed_domains |-> <<>>, remove_allowed_domains |-> <<>>,
   approval_timeout_secs |-> 0]

\* A PolicyUpdate for one list.
UpdateOf(l, add, remove, secs) ==
  LET u == [NoUpdate EXCEPT !.approval_timeout_secs = secs] IN
  CASE l = "allowed_tools" ->
         [u EXCEPT !.add_allowed_tools = add, !.remove_allowed_tools = remove]
    [] l = "denied_tools" ->
         [u EXCEPT !.add_denied_tools = add, !.remove_denied_tools = remove]
    [] l = "denied_paths" ->
         [u EXCEPT !.add_denied_paths = add, !.remove_denied_paths = remove]
    [] l = "allowed_domains" ->
         [u EXCEPT !.add_allowed_domains = add, !.remove_allowed_domains = remove]

\* The updates the environment sends: for one list at most one entry added
\* and one removed, or a new approval timeout.
PolicyUpdates ==
  UNION { { UpdateOf(l, add, remove, 0) :
              add \in SeqsUpTo(ItemsOf(l), 1), remove \in SeqsUpTo(ItemsOf(l), 1) } :
          l \in ListNames }
  \cup { [NoUpdate EXCEPT !.approval_timeout_secs = 30] }

\* The configurations a config file can hold: every list any sequence of its
\* entries, repeated entries included.
StartConfigs ==
  [allowed_tools : SeqsUpTo(ItemsOf("allowed_tools"), MaxStartLen),
   denied_tools : SeqsUpTo(ItemsOf("denied_tools"), MaxStartLen),
   denied_paths : SeqsUpTo(ItemsOf("denied_paths"), MaxStartLen),
   allowed_domains : SeqsUpTo(ItemsOf("allowed_domains"), MaxStartLen),
   approval_timeout_secs : {86400}]

\* The callers of the policy check (the operator socket's peers), and what a
\* caller can have asked to remember.
PolicyCallers == {"uid:1000"}
ApprovalKeys == {<<"tool", "ssh">>, <<"domain", "evil.test">>}

\* The requests checked: network tools by path and by name with up to
\* MaxArgs arguments, and one in a working directory a policy can list.
PolicyRequests ==
  { [job_id |-> "j1", tool |-> "/usr/bin/curl", args |-> as, cwd |-> "",
     timeout_ms |-> 0] :
      as \in SeqsUpTo({"-v", "https://evil.test/path", "https://example.com/path"},
                      MaxArgs) }
  \cup
  { [job_id |-> "j1", tool |-> "ssh", args |-> as, cwd |-> "", timeout_ms |-> 0] :
      as \in SeqsUpTo({"evil.test", "git@example.com:repo"}, MaxArgs) }
  \cup
  { [job_id |-> "j1", tool |-> "ssh", args |-> <<"evil.test">>, cwd |-> "/etc",
     timeout_ms |-> 0] }

InitPolicy ==
  /\ config \in StartConfigs
  /\ \E S \in SUBSET ApprovalKeys :
       session_approvals = [c \in Callers |-> IF c \in PolicyCallers THEN S ELSE {}]
  /\ InitRest

\* PolicyChecker::check(req, caller)
PolicyCheckCall(c, req) ==
  /\ LET d == PolicyCheck(config, session_approvals[c], req) IN
       call' = [op |-> "check", caller |-> c, result |-> d.decision, req |-> req,
                named |-> d.named, domains |-> d.domains]
  /\ UNCHANGED <<connection_mode, jobVars, outboxVars, linkVars, now, trust, asked, exec, frames, reconnect>>

\* PolicyChecker::apply_update(update)
PolicyApplyUpdate(u) ==
  /\ config' = apply_update(config, u)
  /\ call' = [op |-> "apply_update", caller |-> "none", result |-> "ok", update |-> u]
  /\ UNCHANGED <<connection_mode, sessions, refusal_log, session_approvals, pending,
                 jobs, completed, semaphore, tasks, cancelWait, accepted, terminals,
                 rejected, cached_reply, runs, sysRuns, nMsg, outboxVars, linkVars,
                 now, trust, asked, exec, frames, reconnect>>

NextPolicy ==
  \/ \E c \in PolicyCallers, req \in PolicyRequests : PolicyCheckCall(c, req)
  \/ \E u \in PolicyUpdates : PolicyApplyUpdate(u)

SpecPolicy == InitPolicy /\ [][NextPolicy]_vars

\* The request passes the deny lists and the tool step of the check.
ToolAllowed(c, req) ==
  /\ req.tool \notin Range(config.denied_tools)
  /\ req.cwd = "" \/ req.cwd \notin Range(config.denied_paths)
  /\ \/ config.allowed_tools = <<>>
     \/ req.tool \in Range(config.allowed_tools)
     \/ <<"tool", req.tool>> \in session_approvals[c]

\* The detected domains of a request that are neither in allowed_domains nor
\* remembered for the caller.
NotApproved(c, req) ==
  { d \in Range(extract_domains(req.tool, req.args)) :
      /\ d \notin Range(config.allowed_domains)
      /\ <<"domain", d>> \notin session_approvals[c] }

\* C16: after a check (the state a check leaves holds the request, the
\* result and the policy it was made under): for a request whose tool is
\* allowed, the policy check with a
\* non-empty allowed_domains returns NeedsApproval citing exactly the detected
\* domains that are neither allowed nor remembered for the caller when there
\* are such domains, and Allow when there are none; with allowed_domains
\* empty it returns Allow whatever domains are detected.
C16_DomainStep ==
  call.op = "check" =>
    LET c == call.caller
        req == call.req
    IN ToolAllowed(c, req)
       => IF config.allowed_domains # <<>> /\ NotApproved(c, req) # {}
          THEN /\ call.result = "NeedsApproval"
               /\ Range(call.named) = NotApproved(c, req)
               /\ Len(call.named) = Cardinality(NotApproved(c, req))
          ELSE call.result = "Allow"

\* A request with an allowed and a foreign domain needed approval, citing the
\* foreign one only; the caller had remembered nothing.
C16_Witness ==
  /\ call.op = "check"
  /\ call.result = "NeedsApproval"
  /\ call.named = <<"evil.test">>
  /\ call.domains = <<"example.com", "evil.test">>
  /\ config.allowed_domains = <<"example.com">>
  /\ \A c \in PolicyCallers : session_approvals[c] = {}

\* C17: for each of the four policy lists and any starting configuration,
\* after apply_update with add = [x] and remove = [] has been applied once, and
\* again after it has been applied a second time, get_state() shows x in that
\* list exactly once.
C17_AddedExactlyOnce ==
  [][ \A l \in ListNames : \A x \in ItemsOf(l) :
        PolicyApplyUpdate(UpdateOf(l, <<x>>, <<>>, 0))
        => /\ Count(get_state(config')[l], x) = 1
           /\ Count(get_state(apply_update(config', UpdateOf(l, <<x>>, <<>>, 0)))[l], x) = 1
    ]_vars

\* ------------------------------------------------------------ outbox alone
\* prepare_outbound: stamp the envelope, encode it, store it.
PrepareOutbound(id) ==
  /\ next_seq <= MaxEnvelopes
  /\ LET st == stamp(next_seq, local_ack)
         data == [kind |-> "Envelope", id |-> id, seq |-> st.seq, ack |-> st.ack]
     IN /\ next_seq' = st.next_seq
        /\ buffer' = store(buffer, st.seq, data)
  /\ UNCHANGED <<connection_mode, jobVars, linkVars, unitVars, peer_ack, local_ack>>

\* Outbox::on_recv(seq)
OutboxOnRecv(seq) ==
  /\ local_ack' = on_recv(local_ack, seq)
  /\ UNCHANGED <<connection_mode, jobVars, linkVars, unitVars, next_seq, peer_ack, buffer>>

\* Outbox::on_peer_ack(ack)
OutboxOnPeerAck(ack) ==
  /\ peer_ack' = AdvanceAck(peer_ack, ack)
  /\ buffer' = PopAcked(buffer, AdvanceAck(peer_ack, ack))
  /\ call' = [op |-> "on_peer_ack", caller |-> "none", result |-> ack]
  /\ UNCHANGED <<connection_mode, jobVars, linkVars, next_seq, local_ack, now, trust,
                 asked, exec, frames, reconnect>>

NextOutbox ==
  \/ \E id \in 1..MaxEmitters : PrepareOutbound(id)
  \/ \E seq \in 0..MaxPeerSeq : OutboxOnRecv(seq)
  \/ \E ack \in 0..MaxPeerSeq : OutboxOnPeerAck(ack)

SpecOutbox == Init /\ [][NextOutbox]_vars

\* Outbox::pending_count
pending_count(buf) == Len(buf)

\* C18: on an outbox on which n envelopes (n not above the buffer cap) have
\* been stamped and stored and nothing acknowledged, on_peer_ack(n) leaves
\* pending_count() = 0, and on_peer_ack(k) with k < n leaves exactly the n - k
\* entries with seq k+1 .. n, in that order.
C18_AckLeavesTail ==
  [][ \A k \in 0..MaxPeerSeq :
        LET n == next_seq - 1 IN
          (OutboxOnPeerAck(k) /\ peer_ack = 0 /\ n <= max_buffer /\ k <= n)
          => /\ pending_count(buffer') = n - k
             /\ \A i \in 1..(n - k) : buffer'[i].seq = k + i
             /\ k = n => pending_count(buffer') = 0 ]_vars

\* A full buffer was acknowledged in part: the cap's worth of envelopes was
\* stored, the first was acknowledged, the rest is still pending.
C18_Witness ==
  /\ next_seq - 1 = max_buffer
  /\ peer_ack = 1
  /\ pending_count(buffer) = max_buffer - 1
  /\ buffer[1].seq = 2

\* C19: registry.cancel returns without waiting for the job's executor: no
\* read loop is ever suspended inside it with the running-jobs lock held, so
\* register, remove, is_known and the read loops are never blocked by a
\* CancelJob.
C19_CancelNeverSuspends == cancelWait.t = 0 /\ cancelWait.ch = "none"

\* C20: with children that exit, every registered job eventually acquires a
\* permit, runs, is removed from the running map and returns its permit (its
\* task ends), whatever JobRequest and CancelJob messages arrive.
C20_RegisteredJobCompletes ==
  \A t \in TaskIds :
    (tasks[t].pc = "queued" /\ jobs[tasks[t].req.job_id] = t)
      ~> (tasks[t].pc = "free" /\ semaphore > 0)

MaxWrites == 2
\* The timeout_ms values of the requests run.
ExecTimeouts == {0, 1}

StartExec(timeout_ms) ==
  [NoExec EXCEPT !.pc = "start", !.timeout_ms = timeout_ms]

InitExec ==
  /\ config = PolicyConfig0
  /\ session_approvals = [c \in Callers |-> {}]
  /\ InitBase
  /\ exec \in { StartExec(tm) : tm \in ExecTimeouts }

ExecUnchanged ==
  UNCHANGED <<connection_mode, jobVars, outboxVars, linkVars, now, trust, asked, call,
              frames, reconnect>>

\* make_event_envelope / the JobFinished envelope of finish
JobEventEnv(s, i) == [kind |-> "JobEvent", stream |-> s, chunk |-> i, exit_code |-> 0, error |-> ""]
JobFinishedEnv(code, err) == [kind |-> "JobFinished", stream |-> "", chunk |-> 0, exit_code |-> code, error |-> err]

\* finish(exit_code, error): tx.send of the JobFinished envelope
finish(e, code, err) ==
  [e EXCEPT !.pc = "returned", !.out = Append(e.out, JobFinishedEnv(code, err))]

\* The result a path through the select ends with.
PathResult(e) ==
  CASE e.path = "exit" -> [exit_code |-> e.code, error |-> ""]
    [] e.path = "wait_error" -> [exit_code |-> -1, error |-> "wait failed"]
    [] e.path = "timeout" -> [exit_code |-> -1, error |-> "timeout"]
    [] e.path = "cancelled" -> [exit_code |-> -1, error |-> "cancelled"]
    [] OTHER -> [exit_code |-> -1, error |-> "unknown error"]

\* cmd.spawn(): on failure finish(-1, e) and return; on success the two
\* reader tasks are spawned and run_job enters the select.
ExecSpawn(ok) ==
  /\ exec.pc = "start"
  /\ exec' = IF ok
             THEN [exec EXCEPT !.pc = "select", !.child = "running",
                               !.reader = [s \in Streams |-> "reading"]]
             ELSE finish([exec EXCEPT !.path = "spawn"], -1, "spawn failed")
  /\ ExecUnchanged

\* The child writes a chunk to one of its pipes.
ChildWrite(s) ==
  /\ exec.child = "running"
  /\ exec.written[s] < MaxWrites
  /\ exec' = [exec EXCEPT !.written[s] = @ + 1]
  /\ ExecUnchanged

\* The child exits by itself.
ChildExits(code) ==
  /\ exec.child = "running"
  /\ exec' = [exec EXCEPT !.child = "exited", !.code = code]
  /\ ExecUnchanged

\* Reader task, Ok(n): the next chunk of the pipe is sent as a JobEvent.
ReaderRead(s) ==
  /\ exec.reader[s] = "reading"
  /\ exec.read[s] < exec.written[s]
  /\ exec' = [exec EXCEPT !.read[s] = @ + 1,
                          !.out = Append(@, JobEventEnv(s, exec.read[s] + 1))]
  /\ ExecUnchanged

\* Reader task, Ok(0): end of file, the task ends.
ReaderEof(s) ==
  /\ exec.reader[s] = "reading"
  /\ exec.read[s] = exec.written[s]
  /\ exec.child \in {"exited", "killed"}
  /\ exec' = [exec EXCEPT !.reader[s] = "done"]
  /\ ExecUnchanged

\* Reader task, Err(_): the task ends.
ReaderErr(s) ==
  /\ exec.reader[s] = "reading"
  /\ exec' = [exec EXCEPT !.reader[s] = "done"]
  /\ ExecUnchanged

\* registry.cancel puts a signal in the job's cancel channel (capacity 1).
CancelArrives ==
  /\ exec.pc \in {"start", "select", "join"}
  /\ exec.cancel = 0
  /\ exec' = [exec EXCEPT !.cancel = 1]
  /\ ExecUnchanged

\* select arm child.wait() => Ok(status)
SelectExit ==
  /\ exec.pc = "select"
  /\ exec.child = "exited"
  /\ exec' = [exec EXCEPT !.pc = "join", !.path = "exit"]
  /\ ExecUnchanged

\* select arm child.wait() => Err(e)
SelectWaitErr ==
  /\ exec.pc = "select"
  /\ exec.child = "running"
  /\ exec' = [exec EXCEPT !.pc = "join", !.path = "wait_error"]
  /\ ExecUnchanged

\* The select has a timeout arm only for timeout_ms > 0.
timeout_always_armed(timeout_ms) == TRUE

timeout_armed(timeout_ms) == timeout_ms > 0

\* select arm timeout(..) => Err(_): the timeout elapsed with the child
\* still running; child.kill().
SelectTimeout ==
  /\ exec.pc = "select"
  /\ timeout_armed(exec.timeout_ms)
  /\ exec.child = "running"
  /\ exec' = [exec EXCEPT !.pc = "join", !.path = "timeout", !.child = "killed"]
  /\ ExecUnchanged

\* select arm cancel_rx.recv(): child.kill().
SelectCancel ==
  /\ exec.pc = "select"
  /\ exec.cancel = 1
  /\ exec' = [exec EXCEPT !.pc = "join", !.path = "cancelled", !.cancel = 0,
                          !.child = IF @ = "running" THEN "killed" ELSE @]
  /\ ExecUnchanged

\* stdout_handle.await; stderr_handle.await
handles_not_awaited(e) == TRUE

handles_joined(e) == \A s \in Streams : e.reader[s] = "done"

\* Both reader handles awaited, then finish(..) and return.
JoinFinish ==
  /\ exec.pc = "join"
  /\ handles_joined(exec)
  /\ exec' = finish(exec, PathResult(exec).exit_code, PathResult(exec).error)
  /\ ExecUnchanged

ReaderStep(s) == ReaderRead(s) \/ ReaderEof(s)

NextExec ==
  \/ \E ok \in BOOLEAN : ExecSpawn(ok)
  \/ \E s \in Streams : ChildWrite(s)
  \/ \E code \in ExitCodes : ChildExits(code)
  \/ \E s \in Streams : ReaderRead(s)
  \/ \E s \in Streams : ReaderEof(s)
  \/ \E s \in Streams : ReaderErr(s)
  \/ CancelArrives
  \/ SelectExit
  \/ SelectWaitErr
  \/ SelectTimeout
  \/ SelectCancel
  \/ JoinFinish

SpecExec == InitExec /\ [][NextExec]_vars

\* The tasks are scheduled: a reader that can read or see end of file does,
\* and run_job resumes when both handles are finished.
SpecExecLive ==
  SpecExec /\ (\A s \in Streams : WF_vars(ReaderStep(s))) /\ WF_vars(JoinFinish)

\* C22: on every path (child exit, timeout, cancel) the JobFinished of a job
\* is put on the outbound channel after every JobEvent of both readers: no
\* JobEvent follows it, at most one JobFinished is sent, the chunks of one
\* stream are in read order, and at return every chunk a reader read is on
\* the channel before the JobFinished.
C22_FinishedAfterEvents ==
  /\ \A i \in 1..Len(exec.out) :
       exec.out[i].kind = "JobFinished" => i = Len(exec.out) /\ exec.pc = "returned"
  /\ \A i \in 1..Len(exec.out) : \A j \in 1..Len(exec.out) :
       (i < j /\ exec.out[i].kind = "JobEvent" /\ exec.out[j].kind = "JobEvent"
              /\ exec.out[i].stream = exec.out[j].stream)
       => exec.out[i].chunk < exec.out[j].chunk
  /\ exec.pc = "returned" =>
       /\ exec.out[Len(exec.out)].kind = "JobFinished"
       /\ \A s \in Streams : \A n \in 1..exec.read[s] :
            \E i \in 1..(Len(exec.out) - 1) : exec.out[i] = JobEventEnv(s, n)
       /\ \A s \in Streams : exec.reader[s] \in {"done", "none"}

C22_Witness ==
  /\ exec.pc = "returned"
  /\ exec.path = "cancelled"
  /\ exec.read["stdout"] = MaxWrites
  /\ exec.read["stderr"] >= 1
  /\ exec.out[1].stream = "stderr"
  /\ exec.out[2].stream = "stdout"

\* C23: a job with timeout_ms > 0 whose timeout elapses while its child is
\* still running and the select has taken no other arm has the child killed
\* and ends with JobFinished(-1, "timeout"), whatever arrives afterwards;
\* with timeout_ms = 0 the timeout path is never taken and the job ends by
\* the child's exit (or a failed wait) or by cancel.
C23_TimeoutOnlyWhenPositive ==
  /\ [](exec.path = "timeout" => exec.timeout_ms > 0 /\ exec.child = "killed")
  /\ []((exec.pc = "returned" /\ exec.path = "timeout")
          => exec.out[Len(exec.out)] = JobFinishedEnv(-1, "timeout"))
  /\ []((exec.timeout_ms = 0 /\ exec.pc = "returned" /\ exec.path # "spawn")
          => /\ exec.path \in {"exit", "wait_error", "cancelled"}
             /\ exec.out[Len(exec.out)].error # "timeout")
  /\ [][ (exec.pc = "select" /\ exec.path' = "timeout")
           => /\ exec.child = "running"
              /\ exec'.child = "killed"
              /\ exec'.pc = "join" ]_vars
  /\ (exec.path = "timeout") ~> (exec.pc = "returned")

C23_Witness ==
  /\ exec.pc = "returned"
  /\ exec.path = "timeout"
  /\ exec.timeout_ms > 0
  /\ exec.cancel = 1
  /\ Len(exec.out) >= 2

\* C24: when run_job has returned for a job, the job is first removed from
\* the running map and then recorded in the completed cache with the exit
\* code and error of its JobFinished, the permit being held until then, and
\* from then on a lookup of the job id gives that result (so a duplicate
\* JobRequest is answered with it).
C24_RecordedAsFinished ==
  [][ \A t \in TaskIds :
        MarkCompleted(t) =>
          LET j == tasks[t].req.job_id IN
            /\ jobs[j] # t
            /\ tasks[t].permit
            /\ semaphore' = semaphore + 1
            /\ is_known(jobs', completed', j) = "Completed"
            /\ CompletedResult(completed', j) =
                 [job_id |-> j, exit_code |-> tasks[t].exit_code,
                  error |-> tasks[t].error] ]_vars

\* The steps themselves: the permit is held from run_job's return to the
\* recording, and the new cache entry is the run's result.
RecordedInOrder ==
  [][ \A t \in TaskIds :
        MarkCompleted(t) =>
          LET j == tasks[t].req.job_id IN
            /\ jobs[j] # t
            /\ tasks[t].permit
            /\ semaphore' = semaphore + 1
            /\ completed'[Len(completed')] =
                 [job_id |-> j, exit_code |-> tasks[t].exit_code,
                  error |-> tasks[t].error] ]_vars

\* C25: once a write to the controller link has failed and the send task has
\* stopped, the read loop of that connection processes no further envelope
\* and its handlers start no further task: the connection is torn down for
\* the reconnect instead.
C25_NoReadAfterSendStops ==
  [][ (sender = "ended" /\ conn = "open")
        => /\ nPeer' = nPeer
           /\ \A e \in EmitterIds : emitters[e] = "none" => emitters'[e] = "none" ]_vars

\* C26: on one connection the frames after the Hello are in strictly
\* increasing seq order and in the order the envelopes were handed to the
\* channel; the send task stores each envelope it stamps before the write, so
\* whether the write succeeds or fails the stamped seq is in the outbox
\* buffer at that moment, and a written envelope is the buffer's newest one.
C26_StoredThenWrittenInOrder ==
  /\ [](\A i \in 1..Len(wire) : \A k \in 1..Len(wire) :
          (i < k /\ wire[i].kind # "Hello")
          => /\ wire[k].kind # "Hello"
             /\ wire[i].seq < wire[k].seq
             /\ wire[i].id < wire[k].id)
  /\ [][ (sender = "alive" /\ Len(stamped') = Len(stamped) + 1)
           => LET seq == stamped'[Len(stamped')] IN
                /\ buffer' # <<>>
                /\ buffer'[Len(buffer')].seq = seq
                /\ buffer'[Len(buffer')].data.id = Head(chan)
                /\ \/ /\ wire' = Append(wire, buffer'[Len(buffer')].data)
                      /\ sender' = "alive"
                   \/ /\ wire' = wire
                      /\ sender' = "ended" ]_vars

C26_Witness ==
  /\ sender = "ended"
  /\ conn = "open"
  /\ nConn >= 2
  /\ Len(wire) >= 3
  /\ wire[2].seq < stamped[Len(stamped)] - 1
  /\ buffer # <<>>
  /\ buffer[Len(buffer)].seq = stamped[Len(stamped)]
  /\ \A i \in 1..Len(wire) : wire[i].seq # stamped[Len(stamped)]

\* C27: sending the Hello of a connection (first connect or reconnect)
\* leaves the outbox as it was: the Hello has seq 0, carries the outbox's
\* local_ack of that moment as last_ack, is not stored in the buffer, and
\* next_seq, the buffer and both acks are unchanged by it.
C27_HelloLeavesOutbox ==
  /\ [][ (conn = "down" /\ conn' # "down")
           => /\ wire' = <<[kind |-> "Hello", id |-> 0, seq |-> 0, ack |-> local_ack]>>
              /\ UNCHANGED <<next_seq, buffer, local_ack, peer_ack, stamped>> ]_vars
  /\ [](\A i \in 1..Len(buffer) : buffer[i].data.kind # "Hello" /\ buffer[i].seq > 0)
  /\ [](\A i \in 1..Len(stamped) : stamped[i] > 0)

C27_Witness ==
  /\ conn = "replay"
  /\ nConn >= 2
  /\ wire[1].kind = "Hello"
  /\ wire[1].ack > 0
  /\ buffer # <<>>
  /\ next_seq > 1

\* C28: local_ack and peer_ack never decrease, across reconnects and for
\* out-of-order or repeated peer envelopes: receiving an envelope with seq s
\* and ack a sets local_ack to max(local_ack, s) and peer_ack to
\* max(peer_ack, a), nothing else changes either of them, and every
\* envelope is stamped with the local_ack of that moment, which is therefore
\* the highest seq received so far.
C28_AcksNeverDecrease ==
  /\ [][ local_ack' >= local_ack /\ peer_ack' >= peer_ack ]_vars
  /\ [][ \A seq \in 0..MaxPeerSeq, ack \in 0..MaxPeerSeq :
           PeerMessage(seq, ack)
           => /\ local_ack' = IF seq >= local_ack THEN seq ELSE local_ack
              /\ peer_ack' = IF ack >= peer_ack THEN ack ELSE peer_ack ]_vars
  /\ [][ (local_ack' # local_ack \/ peer_ack' # peer_ack) => nPeer' = nPeer + 1 ]_vars
  /\ [][ Len(stamped') = Len(stamped) + 1
           => /\ buffer'[Len(buffer')].data.ack = local_ack
              /\ local_ack' = local_ack ]_vars

C28_Witness ==
  /\ nConn >= 2
  /\ nPeer = MaxPeerMsgs
  /\ Len(buffer) = 2
  /\ buffer[1].data.ack > 0
  /\ buffer[2].data.ack > buffer[1].data.ack
  /\ local_ack = buffer[2].data.ack
  /\ local_ack < MaxPeerSeq

\* C29: the outbox buffer never holds more than its capacity, its seq values
\* are strictly increasing from front to back, and a store on a full buffer
\* drops exactly the front entry (the smallest seq) and nothing else.
C29_BufferBoundedOrdered ==
  /\ [](Len(buffer) <= max_buffer)
  /\ [](\A i \in 1..Len(buffer) : \A k \in 1..Len(buffer) :
          i < k => buffer[i].seq < buffer[k].seq)
  /\ [][ Len(stamped') = Len(stamped) + 1
           => LET new == buffer'[Len(buffer')] IN
                /\ new.seq = stamped'[Len(stamped')]
                /\ IF Len(buffer) = max_buffer
                   THEN /\ buffer' = Append(Tail(buffer), new)
                        /\ \A i \in 2..Len(buffer) : buffer[1].seq < buffer[i].seq
                   ELSE buffer' = Append(buffer, new) ]_vars

C29_Witness ==
  /\ Len(buffer) = max_buffer
  /\ buffer[1].seq > 1
  /\ peer_ack = 0
  /\ Len(stamped) > max_buffer
  /\ nConn >= 2

\* C30: the completed cache never holds more than its capacity; recording a
\* result on a full cache drops the entry inserted earliest and nothing else
\* changes the cache (a lookup leaves its content and order alone); is_known
\* reports Running for an id in the running map, otherwise Completed exactly
\* for the ids with an entry in the cache, otherwise Unknown.
C30_CacheBoundedFifo ==
  /\ [](Len(completed) <= max_completed)
  /\ [][ \A t \in TaskIds :
           MarkCompleted(t)
           => LET new == [job_id |-> tasks[t].req.job_id,
                          exit_code |-> tasks[t].exit_code, error |-> tasks[t].error]
              IN IF Len(completed) = max_completed
                 THEN completed' = Append(Tail(completed), new)
                 ELSE completed' = Append(completed, new) ]_vars
  /\ [][ completed' # completed => \E t \in TaskIds : MarkCompleted(t) ]_vars
  /\ [](\A j \in JobIds :
          LET cached == \E i \in 1..Len(completed) : completed[i].job_id = j IN
            /\ is_known(jobs, completed, j) = "Running" <=> jobs[j] # 0
            /\ is_known(jobs, completed, j) = "Completed" <=> (jobs[j] = 0 /\ cached)
            /\ is_known(jobs, completed, j) = "Unknown" <=> (jobs[j] = 0 /\ ~cached))

C30_Witness ==
  /\ Len(completed) = max_completed
  /\ runs["j1"] + runs["j2"] > max_completed
  /\ \A t \in TaskIds : tasks[t].pc = "free"
  /\ cached_reply.n >= 1

\* --------------------------------------------------- read loops alone
\* The frame-reading loops of the controller link (client.rs) and of the
\* operator socket (ipc.rs), fed with well-formed and malformed frames.
\* Frames one connection delivers.
MaxFrames == 3

\* What a frame can be: a well-formed envelope, bytes that do not decode as
\* an envelope, a length prefix above 16 MiB (operator socket only: the
\* controller link carries WebSocket messages, which have no such prefix).
FrameKinds(ch) ==
  IF ch = "ipc" THEN {"envelope", "undecodable", "oversize"}
  ELSE {"envelope", "undecodable"}

FramesUnchanged ==
  UNCHANGED <<connection_mode, jobVars, outboxVars, linkVars, now, trust, asked, call,
              exec, reconnect>>

\* read_frame: Err(InvalidData, "frame too large") for a length above
\* 16 MiB, otherwise the payload.
read_frame(kind) == IF kind = "oversize" THEN "Err" ELSE "Ok"

\* Envelope::decode
decode(kind) == IF kind = "envelope" THEN "Ok" ELSE "Err"

\* One iteration of a read loop.  Operator socket: read_frame, Err => break;
\* decode, Err => continue; dispatch.  Controller link: decode,
\* Err => continue; dispatch.
ReadLoopStep(ch, kind) ==
  /\ frames[ch].open
  /\ frames[ch].read < MaxFrames
  /\ frames' =
       [frames EXCEPT ![ch] =
          IF ch = "ipc" /\ read_frame(kind) = "Err"
          THEN [@ EXCEPT !.open = FALSE, !.read = @ + 1, !.last = kind]
          ELSE IF decode(kind) = "Err"
          THEN [@ EXCEPT !.read = @ + 1, !.last = kind]
          ELSE [@ EXCEPT !.read = @ + 1, !.dispatched = @ + 1, !.last = kind]]
  /\ FramesUnchanged

\* The peer closes the connection: the loop ends.
ReadLoopClosed(ch) ==
  /\ frames[ch].open
  /\ frames' = [frames EXCEPT ![ch].open = FALSE, ![ch].last = "closed"]
  /\ FramesUnchanged

NextFrames ==
  \/ \E ch \in Channels : \E kind \in FrameKinds(ch) : ReadLoopStep(ch, kind)
  \/ \E ch \in Channels : ReadLoopClosed(ch)

SpecFrames == Init /\ [][NextFrames]_vars

\* C31: a frame that does not decode, or that announces more than 16 MiB on
\* the operator socket, is skipped: the connection stays open, nothing but
\* the loop's own position changes, and a well-formed envelope that follows
\* on the same connection is still dispatched.
C31_BadFrameSkipped ==
  [][ \A ch \in Channels :
        (frames'[ch].read = frames[ch].read + 1
           /\ frames'[ch].last \in {"undecodable", "oversize"})
        => /\ frames'[ch].open
           /\ frames'[ch].dispatched = frames[ch].dispatched
           /\ UNCHANGED <<jobVars, outboxVars, linkVars>> ]_vars

\* ------------------------------------------- policy checker with memory
\* The policy checker with its per-caller session memory: checks and
\* remember_approval calls of two callers under a fixed configuration.
MemoryConfigs ==
  [allowed_tools : {<<>>, <<"ssh">>, <<"ls">>},
   denied_tools : {<<>>, <<"ssh">>},
   denied_paths : {<<>>, <<"/etc">>},
   allowed_domains : {<<>>, <<"example.com">>},
   approval_timeout_secs : {86400}]

\* The requests checked and remembered: a network tool with one host, in no
\* working directory, in a listed one, below it, beside it and elsewhere;
\* and a tool that names no host.
MemoryRequests ==
  { [job_id |-> "j1", tool |-> "ssh", args |-> <<"evil.test">>, cwd |-> d,
     timeout_ms |-> 0] : d \in {"", "/etc", "/etc/ssh", "/etcetera", "/home"} }
  \cup
  { [job_id |-> "j1", tool |-> "ssh", args |-> <<"git@example.com:repo">>, cwd |-> "",
     timeout_ms |-> 0],
    [job_id |-> "j1", tool |-> "ls", args |-> <<>>, cwd |-> "/etc/ssh",
     timeout_ms |-> 0] }

InitMemory ==
  /\ config \in MemoryConfigs
  /\ session_approvals = [c \in Callers |-> {}]
  /\ InitRest

\* PolicyChecker::remember_approval(caller, tool, domains), as the approval
\* waiter calls it: with the request's tool and its detected domains.
PolicyRemember(c, req) ==
  /\ session_approvals' =
       remember_approval(session_approvals, c, req.tool,
                         extract_domains(req.tool, req.args))
  /\ call' = [op |-> "remember_approval", caller |-> c, result |-> "ok", req |-> req,
              named |-> <<>>, domains |-> extract_domains(req.tool, req.args)]
  /\ UNCHANGED <<connection_mode, sessions, refusal_log, config, pending, jobs,
                 completed, semaphore, tasks, cancelWait, accepted, terminals, rejected,
                 cached_reply, runs, sysRuns, nMsg, outboxVars, linkVars, now, trust,
                 asked, exec, frames, reconnect>>

\* ApprovalManager::submit builds the ApprovalRequest it returns with
\* detected_domains: Vec::new(), whatever the caller detected.
submit_detected_domains(detected) == <<>>

\* The approval waiter of the operator socket receives an approved response
\* for a request the policy check answered with NeedsApproval: it calls
\* remember_approval(caller, req.tool, approval_req.detected_domains) when
\* resp.remember is set.
ApprovalGranted(c, req, remember) ==
  /\ PolicyCheck(config, session_approvals[c], req).decision = "NeedsApproval"
  /\ session_approvals' =
       IF remember
       THEN remember_approval(session_approvals, c, req.tool,
              submit_detected_domains(PolicyCheck(config, session_approvals[c], req).domains))
       ELSE session_approvals
  /\ call' = [op |-> "approved", caller |-> c,
              result |-> IF remember THEN "remember" ELSE "once", req |-> req,
              named |-> PolicyCheck(config, session_approvals[c], req).named,
              domains |-> PolicyCheck(config, session_approvals[c], req).domains]
  /\ UNCHANGED <<connection_mode, sessions, refusal_log, config, pending, jobs,
                 completed, semaphore, tasks, cancelWait, accepted, terminals, rejected,
                 cached_reply, runs, sysRuns, nMsg, outboxVars, linkVars, now, trust,
                 asked, exec, frames, reconnect>>

NextMemory ==
  \/ \E c \in Callers, req \in MemoryRequests : PolicyCheckCall(c, req)
  \/ \E c \in Callers, req \in MemoryRequests : PolicyRemember(c, req)
  \/ \E c \in PolicyCallers, req \in MemoryRequests, r \in BOOLEAN :
       ApprovalGranted(c, req, r)

SpecMemory == InitMemory /\ [][NextMemory]_vars

\* C32: the policy check answers Deny for every request whose tool is in
\* denied_tools, or whose non-empty working directory starts with a denied
\* path, whatever allowed_tools, allowed_domains and the caller's remembered
\* approvals hold at that moment.
C32_DenyIsFinal ==
  (call.op = "check"
     /\ \/ Contains(config.denied_tools, call.req.tool)
        \/ /\ Contains(config.denied_paths, "/etc")
           /\ call.req.cwd \in {"/etc", "/etc/ssh", "/etcetera"})
  => call.result = "Deny"

C32_Witness ==
  /\ call.op = "check"
  /\ call.result = "Deny"
  /\ call.req.cwd = "/etc/ssh"
  /\ ~Contains(config.denied_tools, call.req.tool)
  /\ Contains(config.allowed_tools, call.req.tool)
  /\ <<"tool", call.req.tool>> \in session_approvals[call.caller]
  /\ <<"domain", "evil.test">> \in session_approvals[call.caller]

\* C33: when a request that needed approval (its tool outside allowed_tools,
\* or one of its domains unapproved) has been approved with remember = true,
\* the same caller's next check of the same request answers Allow; an
\* approval with remember = false leaves the session memory as it was.
C33_RememberedIsAllowed ==
  /\ [][ (call.op = "approved" /\ call.result = "remember"
            /\ call'.op = "check" /\ call'.caller = call.caller /\ call'.req = call.req)
           => call'.result = "Allow" ]_vars
  /\ [][ (call'.op = "approved" /\ call'.result = "once" /\ call' # call)
           => session_approvals' = session_approvals ]_vars

\* C34: when a pending approval of the controller channel is resolved by a
\* response with approved = false, the waiter's JobRejected carries
\* "approval denied" (or "approval denied: <reason>"), the job is neither
\* registered nor run, and the response adds exactly one refusal entry for
\* the job's tool when its reason is non-empty and none otherwise: the entry
\* is the one the waiter records, and no other step records one.
C34_DeniedRejectsOnce ==
  /\ [][ \A t \in TaskIds :
           (WaiterDenied(t) /\ tasks[t].ch = "cloud")
           => LET j == tasks[t].req.job_id
                  why == tasks[t].resp.reason
              IN /\ rejected'.job_id = j
                 /\ rejected'.reason = IF why = "" THEN "approval denied"
                                       ELSE "approval denied: " \o why
                 /\ runs' = runs /\ jobs' = jobs
                 /\ tasks'[t].pc = "free"
                 /\ refusal_log' = IF why = "" THEN refusal_log
                                   ELSE Append(refusal_log, tasks[t].req.tool) ]_vars
  /\ [][ refusal_log' # refusal_log => \E t \in TaskIds : WaiterDenied(t) ]_vars

\* C35: in Trust mode every check() that returns Allow resets trust_expires
\* to now + the session's trust_timeout_mins, so a check less than that
\* timeout after the last set_mode or allowed check is allowed and keeps the
\* caller in Trust; get_session_state changes neither the expiry nor the
\* mode, so a check a full timeout after the last allowed one is denied
\* whatever was queried in between.
C35_AllowSlidesWindow ==
  [][ \A c \in SessionCallers :
        /\ (SessionCheckCall(c) /\ sessions[c] = "Trust" /\ call'.result = "Allow")
             => /\ trust'[c].trust_expires
                     = now + trust[c].trust_timeout_mins * TicksPerMin
                /\ trust'[c].trust_timeout_mins = trust[c].trust_timeout_mins
                /\ sessions'[c] = "Trust"
        /\ (SessionCheckCall(c) /\ sessions[c] = "Trust")
             => (call'.result = "Allow"
                   <=> now - asked[c].at < trust[c].trust_timeout_mins * TicksPerMin)
        /\ GetSessionState(c) => trust' = trust /\ sessions' = sessions /\ asked' = asked
    ]_vars

\* An allowed check in Trust mode, made after time has passed, has moved the
\* expiry a full timeout past the moment of the check.
C35_Witness ==
  \E c \in SessionCallers :
    /\ call = [op |-> "check", caller |-> c, result |-> "Allow"]
    /\ sessions[c] = "Trust"
    /\ asked[c].at = now
    /\ now > 0
    /\ trust[c].trust_expires = now + trust[c].trust_timeout_mins * TicksPerMin

\* ------------------------------------------------------ apply_update alone
MaxUpdateLen == 2

\* The domains the lists of this part hold.
UpdateDomains == ItemsOf("allowed_domains") \cup {"intranet.test"}

\* The starting configurations: allowed_domains is any sequence of up to
\* MaxStartLen domains, repeated ones included.
UpdateConfigs ==
  [allowed_tools : {<<"curl">>}, denied_tools : {<<"rm">>}, denied_paths : {<<"/etc">>},
   allowed_domains : SeqsUpTo(UpdateDomains, MaxStartLen),
   approval_timeout_secs : {86400}]

\* The updates applied: any add and remove of up to MaxUpdateLen domains, an
\* entry of another list named in both add and remove, and a new timeout.
UpdateInputs ==
  { UpdateOf("allowed_domains", add, remove, 0) :
      add \in SeqsUpTo(UpdateDomains, MaxUpdateLen),
      remove \in SeqsUpTo(UpdateDomains, MaxUpdateLen) }
  \cup UNION { { UpdateOf(l, <<x>>, <<x>>, 0) : x \in ItemsOf(l) } :
               l \in ListNames \ {"allowed_domains"} }
  \cup { [NoUpdate EXCEPT !.approval_timeout_secs = 30] }

InitUpdate ==
  /\ config \in UpdateConfigs
  /\ session_approvals = [c \in Callers |-> {}]
  /\ InitRest

NextUpdate == \E u \in UpdateInputs : PolicyApplyUpdate(u)

SpecUpdate == InitUpdate /\ [][NextUpdate]_vars

\* The entries of a list that an update's remove does not name, in the
\* list's order.
KeptOf(list, remove) == LET keep(x) == ~Contains(remove, x) IN SelectSeq(list, keep)

\* C36: apply_update changes each list by removing every entry named in
\* remove and then appending each add entry that is not there any more: the
\* entries kept stay in front in their order, the appended ones follow, each
\* once; an entry named in both add and remove is present exactly once, among
\* the appended ones; an entry only removed is gone; approval_timeout_secs
\* changes only when the update's value is greater than 0.
C36_RemoveThenAdd ==
  [][ call'.op = "apply_update" =>
        LET u == call'.update IN
        /\ \A l \in ListNames :
             LET old == config[l]
                 new == config'[l]
                 add == u["add_" \o l]
                 remove == u["remove_" \o l]
                 kept == KeptOf(old, remove)
                 tail == SubSeq(new, Len(kept) + 1, Len(new))
             IN /\ Len(new) >= Len(kept)
                /\ SubSeq(new, 1, Len(kept)) = kept
                /\ Range(tail) = Range(add) \ Range(kept)
                /\ \A x \in Range(tail) : Count(tail, x) = 1
                /\ \A x \in Range(add) \cap Range(remove) :
                     Count(new, x) = 1 /\ Count(tail, x) = 1
                /\ \A x \in Range(remove) \ Range(add) : Count(new, x) = 0
        /\ config'.approval_timeout_secs
             = IF u.approval_timeout_secs > 0 THEN u.approval_timeout_secs
               ELSE config.approval_timeout_secs
    ]_vars

\* An update that named one domain in both add and remove was applied to a
\* list that held it in front of two others: the others are kept in their
\* order and the named one now follows them.
C36_Witness ==
  /\ call.op = "apply_update"
  /\ call.update.add_allowed_domains = <<"example.com">>
  /\ call.update.remove_allowed_domains = <<"example.com">>
  /\ config.allowed_domains = <<"evil.test", "intranet.test", "example.com">>

\* ------------------------------------------------------ reconnect loop alone
MaxAttempts == 10

\* How one connect() of run() can end.  The controller client returns Err
\* when connect_async fails ("refused") or when the Hello or a replayed
\* envelope cannot be written ("hello_failed"), and Ok when its read loop has
\* ended ("closed").  The gateway client also returns Ok when its loop ends
\* before the gateway's hello-ok ("closed_early").
ConnectOutcomes == {"refused", "hello_failed", "closed", "closed_early"}

\* connect() returned Ok(()).
ConnectOk(outcome) == outcome \in {"closed", "closed_early"}

\* A faulty doubling, used to validate the cap.
next_backoff_uncapped(backoff) == backoff * 2

\* backoff = (backoff * 2).min(30)
next_backoff(backoff) == IF backoff * 2 < 30 THEN backoff * 2 ELSE 30

\* match connect().await { Ok(()) => backoff = 1, Err(e) => {} } and the start
\* of sleep(Duration::from_secs(backoff)).
RunAttempt(outcome) ==
  /\ reconnect.pc = "connecting"
  /\ reconnect.attempts < MaxAttempts
  /\ LET b == IF ConnectOk(outcome) THEN 1 ELSE reconnect.backoff IN
       reconnect' = [pc |-> "sleeping", backoff |-> b,
                     attempts |-> reconnect.attempts + 1,
                     run |-> IF ConnectOk(outcome) THEN 1 ELSE reconnect.run + 1,
                     outcome |-> outcome, delay |-> b]
  /\ UNCHANGED <<connection_mode, jobVars, outboxVars, linkVars, now, trust, asked, call,
                 exec, frames>>

\* The sleep is over: backoff = (backoff * 2).min(30), and the loop connects
\* again.
SleepElapsed ==
  /\ reconnect.pc = "sleeping"
  /\ reconnect' = [reconnect EXCEPT !.pc = "connecting",
                                    !.backoff = next_backoff(reconnect.backoff)]
  /\ UNCHANGED <<connection_mode, jobVars, outboxVars, linkVars, now, trust, asked, call,
                 exec, frames>>

NextReconnect ==
  \/ \E outcome \in ConnectOutcomes : RunAttempt(outcome)
  \/ SleepElapsed

SpecReconnect == Init /\ [][NextReconnect]_vars

\* The delays of a run of attempts, in seconds.
DelaySchedule == <<1, 2, 4, 8, 16, 30>>

MaxIsolationNow == 5

\* The request of this part: one the starting policy does not allow.
IsolationRequests ==
  { [job_id |-> "j1", tool |-> "ssh", args |-> <<"evil.test">>, cwd |-> "",
     timeout_ms |-> 0] }

NextIsolation ==
  \/ (now < MaxIsolationNow /\ Tick)
  \/ \E c \in Callers, m \in Modes : SessionSetMode(c, m, 0)
  \/ \E c \in Callers : SessionCheckCall(c)
  \/ \E c \in Callers, req \in IsolationRequests : PolicyCheckCall(c, req)
  \/ \E c \in Callers, req \in IsolationRequests : PolicyRemember(c, req)

SpecIsolation == Init /\ [][NextIsolation]_vars

\* What check() of the session manager would answer caller c after the step.
SessionDecisionAfter(c) ==
  SessionCheck(sessions'[c],
               /\ sessions'[c] = "Trust"
               /\ trust'[c].trust_expires # None
               /\ now' >= trust'[c].trust_expires).decision

\* The step is a remember_approval, a set_mode, or a session check of caller a.
RememberBy(a) == call'.op = "remember_approval" /\ PolicyRemember(a, call'.req)
SetModeBy(a) == call'.op = "set_mode" /\ SessionSetMode(a, call'.result, asked'[a].t)
SessionCheckBy(a) == call'.op = "check" /\ SessionCheckCall(a)

\* C38: consent is kept per caller.  A remember_approval for one caller
\* changes the result of no policy check of another caller, and a set_mode or
\* a check of one caller (which is where an expired trust reverts) changes
\* neither the session nor the session decision of another caller.
C38_CallersIsolated ==
  [][ \A a \in Callers : \A b \in Callers \ {a} :
        /\ RememberBy(a)
             => \A r \in IsolationRequests :
                  PolicyCheck(config', session_approvals'[b], r).decision
                    = PolicyCheck(config, session_approvals[b], r).decision
        /\ (SetModeBy(a) \/ SessionCheckBy(a))
             => /\ SessionDecisionAfter(b)
                     = SessionCheck(sessions[b], TrustExpired(b)).decision
                /\ sessions'[b] = sessions[b]
                /\ trust'[b] = trust[b]
    ]_vars

\* One caller has an approval remembered and an expired trust behind it,
\* while the other, in Trust mode, has nothing remembered and still needs
\* approval for the same request.
C38_Witness ==
  /\ call.op = "remember_approval" /\ call.caller = "cloud"
  /\ <<"tool", "ssh">> \in session_approvals["cloud"]
  /\ session_approvals["uid:1000"] = {}
  /\ sessions["cloud"] = "Inactive" /\ asked["cloud"].at < now
  /\ sessions["uid:1000"] = "Trust"
  /\ \A r \in IsolationRequests :
       PolicyCheck(config, session_approvals["uid:1000"], r).decision = "NeedsApproval"

\* C39: a JobRequest that arrives with the job id of a job still awaiting
\* approval leaves that job's pending entry and its waiter as they were: the
\* entry still names the first waiter, and the waiter's one-shot channel is
\* still open for a later ApprovalResponse.
C39_DuplicateLeavesWaiter ==
  [][ \A j \in JobIds :
        (accepted'[j] # accepted[j] /\ pending[j] # 0)
        => /\ pending'[j] = pending[j]
           /\ tasks'[pending[j]] = tasks[pending[j]] ]_vars

\* ------------------------------------------- registration on every connect
\* SessionManager::register_caller(caller), as connect() calls it each time
\* the controller connection is set up: entry(caller).or_insert_with(an
\* Inactive session without expiry and with the default timeout).
SessionRegister(c) ==
  /\ sessions' = register_caller(sessions, c)
  /\ trust' = IF sessions[c] = "none" THEN [trust EXCEPT ![c] = NoTrust] ELSE trust
  /\ call' = [op |-> "register_caller", caller |-> c, result |-> "ok"]
  /\ UNCHANGED <<connection_mode, refusal_log, session_approvals, config, pending, jobs,
                 completed, semaphore, tasks, cancelWait, accepted, terminals, rejected,
                 cached_reply, runs, sysRuns, nMsg, outboxVars, linkVars, now, asked,
                 exec, frames, reconnect>>

NextRegister ==
  \/ NextTrust
  \/ \E c \in SessionCallers : SessionRegister(c)

SpecRegister == Init /\ [][NextRegister]_vars

\* C40: register_caller for a caller that already has a session changes
\* neither its mode nor its trust expiry nor its trust timeout, so the next
\* check() is answered as it would have been without the reconnect; a caller
\* without a session becomes Inactive.
C40_RegisterKeepsSession ==
  [][ \A c \in SessionCallers :
        (call'.op = "register_caller" /\ SessionRegister(c))
        => IF sessions[c] = "none"
           THEN sessions'[c] = "Inactive" /\ trust'[c].trust_expires = None
           ELSE /\ sessions'[c] = sessions[c]
                /\ trust'[c].trust_expires = trust[c].trust_expires
                /\ trust'[c].trust_timeout_mins = trust[c].trust_timeout_mins
                /\ SessionCheck(sessions'[c],
                                /\ sessions'[c] = "Trust"
                                /\ trust'[c].trust_expires # None
                                /\ now' >= trust'[c].trust_expires).decision
                     = SessionCheck(sessions[c], TrustExpired(c)).decision
    ]_vars

\* The controller reconnected while its session was in Trust mode with a
\* timeout of its own choosing: the session is still in Trust mode, with the
\* expiry and the timeout set_mode gave it.
C40_Witness ==
  \E c \in SessionCallers :
    /\ call.op = "register_caller" /\ call.caller = c
    /\ sessions[c] = "Trust"
    /\ asked[c].t = MaxTimeout
    /\ trust[c].trust_timeout_mins = MaxTimeout
    /\ trust[c].trust_expires = asked[c].at + MaxTimeout * TicksPerMin
    /\ now > asked[c].at

====
